---- MODULE Spec2Model ----
(***************************************************************************)
(* PrimeFlix (plugin.video.primeflix): the TTL file cache, the PrimeAPI    *)
(* facade that wraps the selected backend strategy in that cache, backend  *)
(* discovery and strategy selection, the preflight gate, PrimeAPI          *)
(* construction, and the lazily constructed get_backend() instance with    *)
(* its content operations.                                                 *)
(*                                                                         *)
(* Strings are sequences of symbols taken from a prefix-free alphabet      *)
(* ("rail", "::", "a", ...), so that concatenation is \o, str.startswith   *)
(* is a prefix test on the sequence and str.lower maps symbol by symbol.   *)
(* Optional[T] is <<>> for None and <<x>> for a present x.                 *)
(***************************************************************************)
EXTENDS Integers, Sequences, FiniteSets, TLC

VARIABLES files, now, last, env, sel

vars == <<files, now, last, env, sel>>

(***************************************************************************)
(* Bounds of the model.                                                    *)
(***************************************************************************)
\* time.time() is observed in 0..MaxTime
MaxTime == 1
\* the largest ttl_seconds a caller passes
MaxTtl == 1
\* the longest Addons.GetAddons listing the registry returns
MaxEnum == 2

(***************************************************************************)
(* Python values.                                                          *)
(***************************************************************************)
None == <<>>
Some(x) == <<x>>

StartsWith(s, p) == Len(p) <= Len(s) /\ SubSeq(s, 1, Len(p)) = p

LowerSym(c) ==
    CASE c = "Q" -> "q"
      [] c = "PLUGIN.VIDEO." -> "plugin.video."
      [] c = "AMAZON" -> "amazon"
      [] c = "TRUE" -> "true"
      [] c = "READY" -> "ready"
      [] c = "NO" -> "no"
      [] OTHER -> c

Lower(s) == [i \in 1..Len(s) |-> LowerSym(s[i])]

PyNone == [ty |-> "NoneType"]
\* the dict {"items": items, "cursor": cursor}
PyDict(items, cursor) == [ty |-> "dict", items |-> items, cursor |-> cursor]
PyList(items) == [ty |-> "list", items |-> items]
PyTuple(items) == [ty |-> "tuple", items |-> items]
\* the 2-tuple (data, timestamp)
PyPair(data, timestamp) == [ty |-> "tuple", data |-> data, timestamp |-> timestamp]

IsPair(v) == v.ty = "tuple" /\ "data" \in DOMAIN v

\* bool(v)
Truthy(v) ==
    CASE v.ty = "NoneType" -> FALSE
      [] v.ty = "dict" -> TRUE
      [] IsPair(v) -> TRUE
      [] OTHER -> Len(v.items) > 0

\* json.loads(json.dumps(v)): a tuple is written as an array and read as a list
JsonRoundTrip(v) ==
    IF v.ty = "tuple" /\ ~IsPair(v) THEN PyList(v.items) ELSE v

(***************************************************************************)
(* Cache (cache.py).  files maps the path of a logical key to the content  *)
(* of its <sha1>.json file; sha1 is taken to be collision free, so a path  *)
(* is the key itself.                                                      *)
(***************************************************************************)
_filepath(key) == key

Absent == [st |-> "absent"]
\* a file that json.load rejects
Garbage == [st |-> "garbage"]
\* a file holding valid JSON that is not an object, such as []
NonDict == [st |-> "nondict"]
\* a well-formed entry document; its "ttl" field is written by set and read by
\* no code, and is left out
Entry(timestamp, key, data) ==
    [st |-> "dict", timestamp |-> timestamp, key |-> key, data |-> data]

Cache_delete(fs, key) == [fs EXCEPT ![_filepath(key)] = Absent]

\* cache.py line 80: the age test of get, on the timestamp it read
Expired_at_ttl(timestamp, ttl_seconds, t) ==
    ttl_seconds # None /\ (t - timestamp) >= ttl_seconds[1]

Expired(timestamp, ttl_seconds, t) ==
    ttl_seconds # None /\ (t - timestamp) > ttl_seconds[1]

\* cache.py lines 88-90: the write of set, under the lock; t is the clock
\* value set read at line 87, before it asked for the lock
Cache_set(fs, key, data, ttl_seconds, t) ==
    [fs EXCEPT ![_filepath(key)] = Entry(t, key, JsonRoundTrip(data))]

\* the "key" clear_prefix reads from a file: None when the file does not parse
\* or payload.get raises inside the try
StoredKey(doc) == IF doc.st = "dict" THEN Some(doc.key) ELSE None

\* the names of the files that exist
Listdir(fs) == {f \in DOMAIN fs : fs[f].st # "absent"}

\* os.listdir gives those names in an order the file system decides: every
\* order is a possible listing
Listings(fs) ==
    {listing \in [1..Cardinality(Listdir(fs)) -> Listdir(fs)] :
        \A i, j \in DOMAIN listing : i # j => listing[i] # listing[j]}

\* one iteration of clear_prefix's loop (lines 105-116), on the file f
Cache_clear_file_any(fs, f, prefix) ==
    LET key == StoredKey(fs[f]) IN
    IF key # None THEN Cache_delete(fs, key[1]) ELSE fs

Cache_clear_file(fs, f, prefix) ==
    LET key == StoredKey(fs[f]) IN
    IF key # None /\ StartsWith(key[1], prefix)
    THEN Cache_delete(fs, key[1])
    ELSE fs

\* the loop of clear_prefix over the listed files, in the order of the
\* listing, run without interruption
RECURSIVE ClearFiles(_, _, _)
ClearFiles(fs, listing, prefix) ==
    IF listing = <<>> THEN fs
    ELSE ClearFiles(Cache_clear_file(fs, Head(listing), prefix), Tail(listing), prefix)

\* clear_prefix run alone, when os.listdir answers with listing
Cache_clear_prefix(fs, listing, prefix) == ClearFiles(fs, listing, prefix)

Cache_clear_all(fs) == [k \in DOMAIN fs |-> Absent]

(***************************************************************************)
(* Normalisation and the strategies' rail fetch (backend/prime_api.py).    *)
(* A raw item carries its id synonyms and its title; the other fields of a *)
(* normalised video do not bear on what is cached and are left out.        *)
(***************************************************************************)
\* Python's `a or b` on Optional[str] operands
StrOr(a, b) == IF a # None /\ a[1] # <<>> THEN a ELSE b

RawItem(asin, id, title) ==
    [ty |-> "dict", asin |-> asin, id |-> id, title |-> title]
\* an element of a raw item list that is not a dict
RawScalar == [ty |-> "str"]

\* None when the record is dropped, else the normalised video
_normalize_video(item) ==
    IF item.ty # "dict" THEN None
    ELSE LET asin == StrOr(item.asin, item.id)
             title == item.title
         IN IF StrOr(asin, None) = None \/ StrOr(title, None) = None
            THEN None
            ELSE Some([asin |-> asin[1], title |-> title[1]])

RECURSIVE NormalizeItems(_)
NormalizeItems(items) ==
    IF items = <<>> THEN <<>>
    ELSE LET n == _normalize_video(Head(items)) IN
         (IF n = None THEN <<>> ELSE <<n[1]>>) \o NormalizeItems(Tail(items))

\* a raw cursor as the backend sends it: absent, a string, or a number given
\* by its decimal text
RawStr(s) == Some([ty |-> "str", v |-> s])
RawInt(digits) == Some([ty |-> "int", v |-> digits])

\* bool(value) of a raw cursor
RawTruthy(value) ==
    /\ value # None
    /\ IF value[1].ty = "str" THEN value[1].v # <<>> ELSE value[1].v # <<"0">>

\* Python's `a or b` on raw cursors
RawOr(a, b) == IF RawTruthy(a) THEN a ELSE b

\* None stays None, a string is kept, anything else becomes its str()
_safe_str(value) == IF value = None THEN None ELSE Some(value[1].v)

RailData(items, cursor) == [items |-> items, cursor |-> cursor]

\* what the backend add-on answers to one rail or search request: a failure
\* (the strategy raises BackendError), or items with "cursor" and "next"
BackendFails ==
    [err |-> TRUE, exc |-> "BackendError", items |-> <<>>, cursor |-> None, next |-> None]
BackendAnswers(items, cursor, next) ==
    [err |-> FALSE, items |-> items, cursor |-> cursor, next |-> next]

\* what the bound callable of the direct strategy returns: a RailData, a dict
\* with "items" / "videos" / "data" and "cursor" / "next", a list or tuple, or
\* anything else
PayRailData(items, cursor) == [ty |-> "RailData", items |-> items, cursor |-> cursor]
PayDict(items, videos, data, cursor, next) ==
    [ty |-> "dict", items |-> items, videos |-> videos, data |-> data,
     cursor |-> cursor, next |-> next]
PayList(items) == [ty |-> "list", items |-> items]
PayOther == [ty |-> "other"]

\* Python's `a or b` on Optional[list] operands
SeqOr(a, b) == IF a # None /\ a[1] # <<>> THEN a ELSE b

\* _DirectBackendStrategy._normalize
_normalize(payload) ==
    CASE payload.ty = "RailData" ->
           [raised |-> FALSE, exc |-> None,
            data |-> RailData(payload.items, payload.cursor)]
      [] payload.ty = "dict" ->
           LET items == SeqOr(payload.items,
                              SeqOr(payload.videos, SeqOr(payload.data, Some(<<>>))))
           IN [raised |-> FALSE, exc |-> None,
               data |-> RailData(NormalizeItems(items[1]),
                                 _safe_str(RawOr(payload.cursor, payload.next)))]
      [] payload.ty = "list" ->
           [raised |-> FALSE, exc |-> None,
            data |-> RailData(NormalizeItems(payload.items), None)]
      [] OTHER -> [raised |-> TRUE, exc |-> Some("BackendError"),
                   data |-> RailData(<<>>, None)]

\* what the direct strategy's callable does: it raises exc (after the retry
\* with positional arguments when the first call raised TypeError), or
\* returns a payload
DirectFails(exc) == [err |-> TRUE, exc |-> exc, payload |-> PayOther]
DirectReturns(payload) == [err |-> FALSE, payload |-> payload]

\* _DirectBackendStrategy / _IndirectBackendStrategy .get_rail and .search; an
\* answer with a payload is one given to the direct strategy, which hands on
\* whatever its callable raises
Strategy_fetch(answer) ==
    IF answer.err
    THEN [raised |-> TRUE, exc |-> Some(answer.exc), data |-> RailData(<<>>, None)]
    ELSE IF "payload" \in DOMAIN answer
    THEN _normalize(answer.payload)
    ELSE [raised |-> FALSE, exc |-> None,
          data |-> RailData(NormalizeItems(answer.items),
                            _safe_str(RawOr(answer.cursor, answer.next)))]

(***************************************************************************)
(* Calls of Cache and of PrimeAPI.get_rail / PrimeAPI.search.  The limit   *)
(* argument reaches the strategy only and takes no part in the cache key.  *)
(* A call is not one step: other threads and the clock move between its   *)
(* accesses to the files.  A call is a record whose pc names the access it *)
(* makes next:                                                             *)
(*   "read"     Cache.get, lines 69-78: the existence test and the read    *)
(*              under the lock, with the delete of a file that does not    *)
(*              parse;                                                     *)
(*   "ttl"      Cache.get, lines 79-83, after the lock is released: the    *)
(*              clock is read, the entry read before is tested and the     *)
(*              file is deleted when that entry has expired;               *)
(*   "fetch"    the wait for the strategy (prime_api.py lines 578, 593);   *)
(*   "clock"    Cache.set, lines 86-87: the payload is built, with the     *)
(*              clock read before the lock is asked for;                   *)
(*   "write"    Cache.set, lines 88-90: the write under the lock;          *)
(*   "delete"   Cache.delete, lines 93-101;                                *)
(*   "listdir"  clear_prefix line 104 and clear_all lines 119-126;         *)
(*   "scan"     one iteration of the loop of clear_prefix or clear_all;    *)
(*   "done"     the call has returned or raised.                           *)
(***************************************************************************)
RailKey(rail_id, cursor) ==
    <<"rail", "::">> \o rail_id \o <<"::">> \o StrOr(cursor, Some(<<"root">>))[1]

SearchKey(query, cursor) ==
    <<"search", "::">> \o Lower(query) \o <<"::">> \o StrOr(cursor, Some(<<"root">>))[1]

NoCall ==
    [op |-> "none", pc |-> "idle", key |-> <<>>, ttl |-> None,
     use_cache |-> FALSE, force_refresh |-> FALSE, arg |-> PyNone,
     prefix |-> <<>>, todo |-> <<>>,
     looked |-> FALSE, seen |-> Absent, evicted |-> FALSE,
     t |-> 0, wrote |-> FALSE, calls |-> 0, answer |-> BackendFails,
     ret |-> PyNone, data |-> RailData(<<>>, None), from_cache |-> FALSE,
     exc |-> None,
     raised |-> FALSE]

InProgress(c) == c.pc \notin {"idle", "done"}

\* prime_api.py line 571: whether get_rail consults the cache
PrimeAPI_get_rail_lookup_ignores_force(use_cache, force_refresh) ==
    use_cache

PrimeAPI_get_rail_lookup(use_cache, force_refresh) ==
    ~force_refresh /\ use_cache

\* prime_api.py line 586: whether search consults the cache
PrimeAPI_search_lookup_always(use_cache) ==
    TRUE

PrimeAPI_search_lookup(use_cache) ==
    use_cache

get_rail_call(rail_id, cursor, ttl, use_cache, force_refresh) ==
    [NoCall EXCEPT !.op = "get_rail",
                   !.pc = IF PrimeAPI_get_rail_lookup(use_cache, force_refresh)
                          THEN "read" ELSE "fetch",
                   !.key = RailKey(rail_id, cursor), !.ttl = Some(ttl),
                   !.use_cache = use_cache, !.force_refresh = force_refresh]

search_call(query, cursor, ttl, use_cache) ==
    [NoCall EXCEPT !.op = "search",
                   !.pc = IF PrimeAPI_search_lookup(use_cache) THEN "read" ELSE "fetch",
                   !.key = SearchKey(query, cursor), !.ttl = Some(ttl),
                   !.use_cache = use_cache]

Cache_get_call(key, ttl_seconds) ==
    [NoCall EXCEPT !.op = "get", !.pc = "read", !.key = key, !.ttl = ttl_seconds]

Cache_set_call(key, data, ttl_seconds) ==
    [NoCall EXCEPT !.op = "set", !.pc = "clock", !.key = key, !.arg = data,
                   !.ttl = Some(ttl_seconds)]

Cache_delete_call(key) ==
    [NoCall EXCEPT !.op = "delete", !.pc = "delete", !.key = key]

Cache_clear_prefix_call(prefix) ==
    [NoCall EXCEPT !.op = "clear_prefix", !.pc = "listdir", !.prefix = prefix]

Cache_clear_all_call ==
    [NoCall EXCEPT !.op = "clear_all", !.pc = "listdir"]

\* a step leaves the call and the files
Leaves(c, fs) == [c |-> c, files |-> fs]

Finished(c, fs) == Leaves([c EXCEPT !.pc = "done"], fs)

\* prime_api.py lines 573-577 and 588-592: the rail the facade makes of the
\* value Cache.get returned, None when it goes on to the strategy
CachedAnswer(cached) ==
    IF Truthy(cached) /\ cached.ty = "dict" /\ "items" \in DOMAIN cached
    THEN Some(RailData(cached.items, cached.cursor))
    ELSE IF Truthy(cached) /\ cached.ty = "list"
    THEN Some(RailData(cached.items, None))
    ELSE None

\* Cache.get returns value: to its caller when it was called directly, to
\* lines 573-577 / 588-592 of the facade otherwise
Cache_get_returns(c, value, fs) ==
    IF c.op = "get" THEN Finished([c EXCEPT !.ret = value], fs)
    ELSE IF CachedAnswer(value) # None
    THEN Finished([c EXCEPT !.ret = value, !.data = CachedAnswer(value)[1],
                            !.from_cache = TRUE], fs)
    ELSE Leaves([c EXCEPT !.ret = value, !.pc = "fetch"], fs)

\* Cache.get lines 69-78
Cache_get_read(c, fs) ==
    LET doc == fs[_filepath(c.key)]
        c1 == [c EXCEPT !.looked = TRUE, !.seen = doc]
    IN CASE doc.st = "absent" -> Cache_get_returns(c1, PyNone, fs)
         [] doc.st = "garbage" ->
              Cache_get_returns([c1 EXCEPT !.evicted = TRUE], PyNone,
                                Cache_delete(fs, c.key))
         [] OTHER -> Leaves([c1 EXCEPT !.pc = "ttl"], fs)

\* Cache.get lines 79-83, on the payload read at lines 75-76
Cache_get_ttl(c, fs, t) ==
    IF c.seen.st = "nondict"
    THEN \* payload.get(...) on a list: AttributeError, outside the try
         Finished([c EXCEPT !.raised = TRUE, !.exc = Some("AttributeError")], fs)
    ELSE IF Expired(c.seen.timestamp, c.ttl, t)
    THEN Cache_get_returns([c EXCEPT !.evicted = TRUE], PyNone, Cache_delete(fs, c.key))
    ELSE Cache_get_returns(c, PyPair(c.seen.data, c.seen.timestamp), fs)

\* prime_api.py lines 578-581 and 593-596 up to the call of Cache.set
PrimeAPI_fetch(c, answer, fs) ==
    LET s == Strategy_fetch(answer)
        c1 == [c EXCEPT !.calls = @ + 1, !.answer = answer, !.data = s.data]
    IN IF s.raised THEN Finished([c1 EXCEPT !.raised = TRUE, !.exc = s.exc], fs)
       ELSE IF c.use_cache
       THEN Leaves([c1 EXCEPT !.pc = "clock",
                              !.arg = PyDict(s.data.items, s.data.cursor)], fs)
       ELSE Finished(c1, fs)

\* Cache.set lines 86-87
Cache_set_clock(c, fs, t) == Leaves([c EXCEPT !.t = t, !.pc = "write"], fs)

\* Cache.set lines 88-90
Cache_set_write(c, fs) ==
    Finished([c EXCEPT !.wrote = TRUE], Cache_set(fs, c.key, c.arg, c.ttl[1], c.t))

\* Cache.delete called directly
Cache_delete_step(c, fs) == Finished(c, Cache_delete(fs, c.key))

\* clear_prefix line 104, clear_all line 126: os.listdir answers with listing,
\* the names left to visit in the order the loop takes them
Cache_listdir(c, fs, listing) ==
    Leaves([c EXCEPT !.todo = listing,
                     !.pc = IF listing = <<>> THEN "done" ELSE "scan"], fs)

\* one iteration of the loop of clear_prefix (lines 105-116) or of clear_all
\* (lines 127-135), on the next name of the listing
Cache_scan(c, fs) ==
    LET f == Head(c.todo)
        left == IF c.op = "clear_all" THEN Cache_delete(fs, f)
                ELSE Cache_clear_file(fs, f, c.prefix)
    IN Leaves([c EXCEPT !.todo = Tail(c.todo),
                        !.evicted = @ \/ (left # fs),
                        !.pc = IF Tail(c.todo) = <<>> THEN "done" ELSE "scan"],
              left)

\* the next step of call c, at time t, when the strategy answers with answer
\* and os.listdir with listing
CallStep(c, fs, t, answer, listing) ==
    CASE c.pc = "read" -> Cache_get_read(c, fs)
      [] c.pc = "ttl" -> Cache_get_ttl(c, fs, t)
      [] c.pc = "fetch" -> PrimeAPI_fetch(c, answer, fs)
      [] c.pc = "clock" -> Cache_set_clock(c, fs, t)
      [] c.pc = "write" -> Cache_set_write(c, fs)
      [] c.pc = "delete" -> Cache_delete_step(c, fs)
      [] c.pc = "listdir" -> Cache_listdir(c, fs, listing)
      [] c.pc = "scan" -> Cache_scan(c, fs)
      [] OTHER -> Leaves(c, fs)

\* call c run to its end with no other thread and no clock step in between
RECURSIVE RunAlone(_, _, _, _, _)
RunAlone(c, fs, t, answer, listing) ==
    IF ~InProgress(c) THEN Leaves(c, fs)
    ELSE LET r == CallStep(c, fs, t, answer, listing)
         IN RunAlone(r.c, r.files, t, answer, listing)

\* get, set, get_rail and search list no directory
NoListing == <<>>

\* Cache.get run alone: the files it leaves, the value it returns, whether it
\* raised
Cache_get(fs, key, ttl_seconds, t) ==
    LET r == RunAlone(Cache_get_call(key, ttl_seconds), fs, t, BackendFails, NoListing) IN
    [files |-> r.files, ret |-> r.c.ret, raised |-> r.c.raised]

Outcome(r) ==
    [files |-> r.files, data |-> r.c.data, from_cache |-> r.c.from_cache,
     raised |-> r.c.raised, exc |-> r.c.exc, calls |-> r.c.calls]

\* PrimeAPI.get_rail and PrimeAPI.search run alone
PrimeAPI_get_rail(fs, t, rail_id, cursor, ttl, use_cache, force_refresh, answer) ==
    Outcome(RunAlone(get_rail_call(rail_id, cursor, ttl, use_cache, force_refresh),
                     fs, t, answer, NoListing))

PrimeAPI_search(fs, t, query, cursor, ttl, use_cache, answer) ==
    Outcome(RunAlone(search_call(query, cursor, ttl, use_cache), fs, t, answer,
                     NoListing))

(***************************************************************************)
(* Inputs.                                                                 *)
(***************************************************************************)
\* the threads of the process that call into the add-on's code
Threads == {"t1", "t2"}

RailIds == {<<"a">>}
Queries == {<<"q">>, <<"Q">>}
Cursors == {None, Some(<<"c">>)}
TTLs == 0..MaxTtl
OptTTLs == {None} \cup {Some(n) : n \in TTLs}

GoodA == RawItem(Some(<<"A">>), None, Some(<<"T">>))
GoodB == RawItem(None, Some(<<"B">>), Some(<<"T">>))
NoId == RawItem(None, None, Some(<<"T">>))
NoTitle == RawItem(Some(<<"A">>), None, None)

Answers ==
    { BackendFails,
      BackendAnswers(<<GoodA>>, RawStr(<<"c">>), None),
      BackendAnswers(<<NoId, GoodB, NoTitle>>, RawStr(<<>>), RawInt(<<"0">>)) }

FacadeKeys ==
    {RailKey(r, c) : r \in RailIds, c \in Cursors}
        \cup {SearchKey(q, None) : q \in Queries}

CacheKeys == FacadeKeys


Prefixes == {<<>>, <<"home", "::">>, <<"rail", "::">>, <<"rail", "::", "a", "::", "c">>,
             <<"rail", "::", "a", "::", "c", "c">>, <<"search">>}

\* the values handed to Cache.set directly
ItemA == [asin |-> <<"A">>, title |-> <<"T">>]

CacheValues == {PyDict(<<ItemA>>, None), PyTuple(<<ItemA>>)}

\* what each thread passes.  Thread t1 makes every call with every argument;
\* t2, the caller that runs beside it, asks the facade for the root page of
\* the rail with the cache on and ttl 0, and gets and sets the rail's key
\* with ttl 0 when it uses the cache directly.
CallCursors(p) == {None}
CallQueries(p) == IF p = "t1" THEN Queries ELSE {}
CallUseCache(p) == IF p = "t1" THEN BOOLEAN ELSE {TRUE}
CallForce(p) == IF p = "t1" THEN BOOLEAN ELSE {FALSE}
CallTtls(p) == IF p = "t1" THEN {0, MaxTtl} ELSE {0}
\* what the strategy answers a call of the thread
CallAnswers(p) ==
    IF p = "t1" THEN Answers ELSE {BackendAnswers(<<GoodA>>, RawStr(<<"c">>), None)}

DirectKeys(p) ==
    IF p = "t1" THEN {RailKey(<<"a">>, None), SearchKey(<<"q">>, None)}
    ELSE {RailKey(<<"a">>, None)}
DirectTtls(p) == IF p = "t1" THEN OptTTLs ELSE {Some(0)}
DirectValues(p) == IF p = "t1" THEN CacheValues ELSE {PyDict(<<ItemA>>, None)}
DirectPrefixes(p) == IF p = "t1" THEN Prefixes ELSE {}
\* the threads that call delete, clear_prefix and clear_all
Clearers == {"t1"}

(***************************************************************************)
(* State machine of the facade: the threads of one process call get_rail   *)
(* and search on one PrimeAPI over one Cache.  sel.th[p] is the call       *)
(* thread p is in, or the call it last finished.                           *)
(***************************************************************************)
NoEnv == [u |-> "unused"]

Init ==
    /\ files = [k \in CacheKeys |-> Absent]
    /\ now = 0
    /\ last = [op |-> "init"]
    /\ env = NoEnv
    /\ sel = [th |-> [p \in Threads |-> NoCall]]

\* the file of key holds a well-formed entry no older than ttl at time t
ValidEntry(fs, key, ttl, t) ==
    /\ fs[_filepath(key)].st = "dict"
    /\ t - fs[_filepath(key)].timestamp <= ttl

\* the wall clock advances
Tick ==
    /\ now < MaxTime
    /\ now' = now + 1
    /\ last' = [op |-> "tick"]
    /\ UNCHANGED <<files, env, sel>>

\* thread p, in no call, makes call c
Invoke(p, c) ==
    /\ ~InProgress(sel.th[p])
    /\ sel' = [sel EXCEPT !.th[p] = c]
    /\ UNCHANGED <<files, now, last, env>>

\* thread p takes the step whose result is r
Takes(p, r) ==
    /\ files' = r.files
    /\ sel' = [sel EXCEPT !.th[p] = r.c]
    /\ UNCHANGED <<now, last, env>>

GetRail(p, rail_id, cursor, ttl, use_cache, force_refresh) ==
    Invoke(p, get_rail_call(rail_id, cursor, ttl, use_cache, force_refresh))

Search(p, query, cursor, ttl, use_cache) ==
    Invoke(p, search_call(query, cursor, ttl, use_cache))

LookUp(p) ==
    /\ sel.th[p].pc = "read"
    /\ Takes(p, Cache_get_read(sel.th[p], files))

TestTtl(p) ==
    /\ sel.th[p].pc = "ttl"
    /\ Takes(p, Cache_get_ttl(sel.th[p], files, now))

Fetch(p, answer) ==
    /\ sel.th[p].pc = "fetch"
    /\ Takes(p, PrimeAPI_fetch(sel.th[p], answer, files))

ReadClock(p) ==
    /\ sel.th[p].pc = "clock"
    /\ Takes(p, Cache_set_clock(sel.th[p], files, now))

WriteFile(p) ==
    /\ sel.th[p].pc = "write"
    /\ Takes(p, Cache_set_write(sel.th[p], files))

DoGetRail(p) ==
    \E rail_id \in RailIds, cursor \in CallCursors(p), ttl \in CallTtls(p),
       use_cache \in CallUseCache(p), force_refresh \in CallForce(p) :
        GetRail(p, rail_id, cursor, ttl, use_cache, force_refresh)

DoSearch(p) ==
    \E query \in CallQueries(p), ttl \in CallTtls(p), use_cache \in CallUseCache(p) :
        Search(p, query, None, ttl, use_cache)

DoFetch(p) == \E answer \in CallAnswers(p) : Fetch(p, answer)

\* an existing entry file is damaged (a torn write, an edit by hand)
Corrupt(key, doc) ==
    /\ files[_filepath(key)].st # "absent"
    /\ files' = [files EXCEPT ![_filepath(key)] = doc]
    /\ UNCHANGED <<now, last, env, sel>>

DoCorrupt == \E key \in DirectKeys("t1"), doc \in {Garbage, NonDict} : Corrupt(key, doc)

\* the damage is done to the entry both threads look up
DoDamage == \E doc \in {Garbage, NonDict} : Corrupt(RailKey(<<"a">>, None), doc)

Next ==
    \/ Tick
    \/ DoDamage
    \/ \E p \in Threads :
          \/ DoGetRail(p) \/ DoSearch(p)
          \/ LookUp(p) \/ TestTtl(p) \/ DoFetch(p) \/ ReadClock(p) \/ WriteFile(p)

Spec == Init /\ [][Next]_vars

(***************************************************************************)
(* State machine of the cache used directly by the threads of one process  *)
(* (Cache.get / set / delete / clear_prefix / clear_all on one instance),  *)
(* with files damaged from outside.                                        *)
(***************************************************************************)
CacheGet(p, key, ttl_seconds) == Invoke(p, Cache_get_call(key, ttl_seconds))

CacheSet(p, key, data, ttl) == Invoke(p, Cache_set_call(key, data, ttl))

CacheDelete(p, key) == Invoke(p, Cache_delete_call(key))

ClearPrefix(p, prefix) == Invoke(p, Cache_clear_prefix_call(prefix))

ClearAll(p) == Invoke(p, Cache_clear_all_call)

Unlink(p) ==
    /\ sel.th[p].pc = "delete"
    /\ Takes(p, Cache_delete_step(sel.th[p], files))

\* os.listdir gives the names in any order
ListFiles(p) ==
    /\ sel.th[p].pc = "listdir"
    /\ \E listing \in Listings(files) : Takes(p, Cache_listdir(sel.th[p], files, listing))

Scan(p) ==
    /\ sel.th[p].pc = "scan"
    /\ Takes(p, Cache_scan(sel.th[p], files))

DoCacheGet(p) ==
    \E key \in DirectKeys(p), ttl_seconds \in DirectTtls(p) : CacheGet(p, key, ttl_seconds)
DoCacheSet(p) ==
    \E key \in DirectKeys(p), data \in DirectValues(p), ttl \in DirectTtls(p) \ {None} :
        CacheSet(p, key, data, ttl[1])
DoCacheDelete(p) == p \in Clearers /\ \E key \in DirectKeys(p) : CacheDelete(p, key)
DoClearPrefix(p) == \E prefix \in DirectPrefixes(p) : ClearPrefix(p, prefix)
DoClearAll(p) == p \in Clearers /\ ClearAll(p)

NextCache ==
    \/ Tick
    \/ DoCorrupt
    \/ \E p \in Threads :
          \/ DoCacheGet(p) \/ DoCacheSet(p) \/ DoCacheDelete(p)
          \/ DoClearPrefix(p) \/ DoClearAll(p)
          \/ LookUp(p) \/ TestTtl(p) \/ ReadClock(p) \/ WriteFile(p)
          \/ Unlink(p) \/ ListFiles(p) \/ Scan(p)

SpecCache == Init /\ [][NextCache]_vars

(***************************************************************************)
(* Claims about the facade's caching (specification Spec).                 *)
(***************************************************************************)
IsFetch(c) == c.op \in {"get_rail", "search"}

Done(c) == c.pc = "done"

\* the entry document a fetch that returned c.data leaves under its key, with
\* the clock value its Cache.set read
StoredBy(c) == Entry(c.t, c.key, PyDict(c.data.items, c.data.cursor))

\* the step from the state to the next is one of thread p's call
StepOf(p) == InProgress(sel.th[p]) /\ sel'.th[p] # sel.th[p]

\* C1: a get_rail with use_cache and without force_refresh whose lookup is
\* handed a valid entry (one stored by an earlier get_rail of the same rail
\* and cursor, within its TTL) returns the stored items and cursor with
\* from_cache = TRUE and does not invoke the strategy.
C1_HitReturnsStored ==
    \A p \in Threads :
       LET c == sel.th[p] IN
       (/\ Done(c) /\ c.op = "get_rail"
        /\ c.use_cache /\ ~c.force_refresh
        /\ c.looked /\ IsPair(c.ret))
       => (/\ c.from_cache
           /\ c.calls = 0
           /\ ~c.raised
           /\ c.data = RailData(c.ret.data.items, c.ret.data.cursor))

\* the lookup of call c found no valid entry: the file is absent, does not
\* parse, is not an object, or has expired
Missed(c) == IsFetch(c) /\ c.use_cache /\ c.looked /\ c.ret = PyNone

\* C2: a get_rail or search with use_cache whose lookup finds no valid entry
\* invokes the strategy exactly once and, when the strategy returns, stores
\* the normalised result under the key and returns it with
\* from_cache = FALSE.
C2_MissFetchesAndStores ==
    /\ [](\A p \in Threads :
            LET c == sel.th[p] IN
            (Done(c) /\ Missed(c))
            => /\ c.calls = 1
               /\ c.raised = c.answer.err
               /\ ~c.raised =>
                    /\ ~c.from_cache
                    /\ c.wrote
                    /\ \A i \in 1..Len(c.data.items) :
                          c.data.items[i].asin # <<>> /\ c.data.items[i].title # <<>>
                    /\ Len(c.data.items) =
                          Cardinality({i \in 1..Len(c.answer.items) :
                             /\ StrOr(c.answer.items[i].asin, c.answer.items[i].id) # None
                             /\ StrOr(c.answer.items[i].title, None) # None}))
    /\ [][\A p \in Threads :
            (IsFetch(sel.th[p]) /\ StepOf(p) /\ sel.th[p].pc = "write")
            => /\ Done(sel'.th[p])
               /\ files' = [files EXCEPT ![sel.th[p].key] = StoredBy(sel.th[p])]]_vars

\* C3 as stated: every get_rail with force_refresh invokes the strategy,
\* returns from_cache = FALSE and writes the fresh result over the entry.
C3_ForceRefreshAlwaysWrites ==
    \A p \in Threads :
       LET c == sel.th[p] IN
       (Done(c) /\ c.op = "get_rail" /\ c.force_refresh /\ ~c.raised)
       => (c.calls = 1 /\ ~c.from_cache /\ c.wrote)

\* C3 amended: a get_rail with force_refresh never reads the cache (it looks
\* nothing up, evicts nothing, invokes the strategy once and returns
\* from_cache = FALSE whatever the cache holds) and, when use_cache is true,
\* writes the fresh result over the entry of its key; no other file is
\* touched and with use_cache false nothing is written.
C3_ForceRefreshWritesWhenCaching ==
    /\ [](\A p \in Threads :
            LET c == sel.th[p] IN
            (c.op = "get_rail" /\ c.force_refresh)
            => /\ ~c.looked /\ ~c.evicted /\ ~c.from_cache
               /\ Done(c) => /\ c.calls = 1
                             /\ c.raised = c.answer.err
                             /\ c.wrote = (~c.raised /\ c.use_cache))
    /\ [][\A p \in Threads :
            (sel.th[p].op = "get_rail" /\ sel.th[p].force_refresh /\ StepOf(p))
            => files' = IF sel.th[p].pc = "write"
                        THEN [files EXCEPT ![sel.th[p].key] = StoredBy(sel.th[p])]
                        ELSE files]_vars

\* a forced call of t1 wrote over the entry t2's call had stored
C3_Witness ==
    LET c == sel.th["t1"]
        d == sel.th["t2"]
    IN
    /\ Done(c) /\ c.op = "get_rail" /\ c.force_refresh /\ c.use_cache
    /\ ~c.raised /\ ~c.from_cache /\ c.calls = 1 /\ c.wrote
    /\ Done(d) /\ d.wrote /\ d.key = c.key /\ StoredBy(d) # StoredBy(c)
    /\ now > 0
    /\ files[c.key] = StoredBy(c)

(***************************************************************************)
(* Claims about the cache used directly (specification SpecCache).         *)
(***************************************************************************)
\* Cache.set(key, data, ttl) and then Cache.get(key, ttl), each run alone and
\* with nothing between them
SetThenGet(fs, key, data, ttl, t) ==
    LET s == RunAlone(Cache_set_call(key, data, ttl), fs, t, BackendFails, NoListing) IN
    Cache_get(s.files, key, Some(ttl), t)

\* C4: Cache.set(k, v, ttl) immediately followed by Cache.get(k, ttl) returns
\* a value equal to v.
C4_SetThenGetReturnsValue ==
    \A key \in DirectKeys("t1"), data \in CacheValues, ttl \in TTLs :
       /\ ~SetThenGet(files, key, data, ttl, now).raised
       /\ SetThenGet(files, key, data, ttl, now).ret = data

\* C5: on the well-formed entry it read, Cache.get(k, ttl) returns None and
\* deletes the file exactly when now - timestamp > ttl, and returns the entry
\* otherwise (an age equal to ttl included); a get of an absent key returns
\* None, and an absent key stays absent until the write of a set of that key.
C5_TtlEviction ==
    [][/\ \A p \in Threads :
            LET c == sel.th[p]
                d == sel'.th[p]
            IN
            /\ (c.op = "get" /\ StepOf(p) /\ c.pc = "ttl" /\ c.seen.st = "dict")
               => /\ Done(d) /\ ~d.raised
                  /\ IF c.ttl # None /\ now - c.seen.timestamp > c.ttl[1]
                     THEN /\ d.ret = PyNone
                          /\ files' = [files EXCEPT ![c.key] = Absent]
                     ELSE /\ d.ret = PyPair(c.seen.data, c.seen.timestamp)
                          /\ files' = files
            /\ (c.op = "get" /\ StepOf(p) /\ c.pc = "read"
                  /\ files[c.key].st = "absent")
               => (Done(d) /\ d.ret = PyNone /\ ~d.raised /\ files' = files)
       /\ \A k \in DOMAIN files :
            (files[k].st = "absent" /\ files'[k].st # "absent")
               => \E p \in Threads :
                     /\ sel.th[p].op = "set" /\ sel.th[p].key = k
                     /\ sel.th[p].pc = "write" /\ StepOf(p)]_vars

C5_Witness ==
    LET c == sel.th["t1"] IN
    /\ Done(c) /\ c.op = "get" /\ c.seen.st = "dict" /\ c.ttl = Some(0)
    /\ c.evicted /\ c.ret = PyNone /\ ~c.raised
    /\ files[c.key] = Absent

\* C6: Cache.get never raises, and on a payload that does not parse or is not
\* a well-formed entry document it evicts the entry and returns None.
C6_CorruptionNeverRaises ==
    \A p \in Threads :
       LET c == sel.th[p] IN
       (Done(c) /\ c.op = "get")
       => /\ ~c.raised
          /\ c.seen.st \in {"garbage", "nondict"} => (c.ret = PyNone /\ c.evicted)

\* C7: clear_prefix(p) evicts every entry whose logical key starts with p and
\* leaves every other file as it was (a file that does not parse has no
\* logical key to read and is left as it is): run alone it leaves exactly
\* that, and among other callers it lists the files that exist and then, for
\* each listed file, deletes it when the key stored in it starts with p and
\* changes nothing else.
C7_ClearPrefixFrame ==
    /\ [](\A prefix \in Prefixes, listing \in Listings(files) :
            Cache_clear_prefix(files, listing, prefix) =
               [k \in DOMAIN files |->
                  IF files[k].st = "dict" /\ StartsWith(files[k].key, prefix)
                  THEN Absent ELSE files[k]])
    /\ [][\A p \in Threads :
            LET c == sel.th[p]
                d == sel'.th[p]
            IN
            (c.op = "clear_prefix" /\ StepOf(p))
            => IF c.pc = "listdir"
               THEN /\ files' = files
                    /\ d.todo \in Listings(files)
               ELSE LET f == Head(c.todo) IN
                       /\ d.todo = Tail(c.todo)
                       /\ files' =
                            [files EXCEPT
                               ![f] = IF @.st = "dict" /\ StartsWith(@.key, c.prefix)
                                      THEN Absent ELSE @]]_vars

C7_Witness ==
    LET c == sel.th["t1"] IN
    /\ Done(c) /\ c.op = "clear_prefix" /\ c.prefix = <<"rail", "::">>
    /\ c.evicted
    /\ files[RailKey(<<"a">>, None)] = Absent
    /\ files[SearchKey(<<"q">>, None)].st = "dict"

(***************************************************************************)
(* Backend discovery (preflight.py).                                       *)
(***************************************************************************)
BACKEND_CANDIDATES ==
    << <<"plugin.video.", "amazon", "-test">>,
       <<"plugin.video.", "amazon", "prime">>,
       <<"plugin.video.", "amazon", "vod">>,
       <<"plugin.video.", "amazon">>,
       <<"plugin.video.", "prime", "video">> >>

KnownPrefix == <<"plugin.video.", "amazon">>

\* xbmcaddon.Addon(addon_id) constructs exactly for the ids in e.installed and
\* raises for every other id
_addon_exists(e, addon_id) == addon_id \in e.installed

\* one entry of the "addons" array: an object with or without "addonid", or
\* something that is not an object
AddonEntry(addonid) == [shape |-> "dict", addonid |-> addonid]
BadEntry == [shape |-> "nondict", addonid |-> None]

\* the answer of xbmc.executeJSONRPC to Addons.GetAddons: the call raises, the
\* text is not JSON, the document is not an object, or it lists addons
RpcRaises == [kind |-> "raise", addons |-> <<>>]
RpcBadJson == [kind |-> "badjson", addons |-> <<>>]
RpcNotObject == [kind |-> "nondict", addons |-> <<>>]
RpcAddons(addons) == [kind |-> "ok", addons |-> addons]

Returned(value) == [ret |-> value, raised |-> FALSE]
Raised == [ret |-> None, raised |-> TRUE]

\* the loop over data["result"]["addons"], run inside the try
RECURSIVE ScanAddons(_)
ScanAddons(addons) ==
    IF addons = <<>> THEN Returned(None)
    ELSE LET addon == Head(addons) IN
         IF addon.shape # "dict" THEN Raised
         ELSE IF /\ StrOr(addon.addonid, None) # None
                 /\ StartsWith(Lower(addon.addonid[1]), KnownPrefix)
              THEN Returned(addon.addonid)
              ELSE ScanAddons(Tail(addons))

\* the JSON-RPC fallback of _discover_backend: whatever is raised inside the
\* try is swallowed and None is returned
EnumerateFallback_unguarded(rpc) ==
    IF rpc.kind # "ok" THEN Raised ELSE ScanAddons(rpc.addons)

EnumerateFallback(rpc) ==
    IF rpc.kind # "ok" THEN Returned(None)
    ELSE LET r == ScanAddons(rpc.addons) IN
         IF r.raised THEN Returned(None) ELSE r

\* the first candidate, from position i on, that exists
RECURSIVE FirstCandidate_last(_, _)
FirstCandidate_last(e, i) ==
    IF i > Len(BACKEND_CANDIDATES) THEN None
    ELSE LET rest == FirstCandidate_last(e, i + 1) IN
         IF rest # None THEN rest
         ELSE IF _addon_exists(e, BACKEND_CANDIDATES[i])
              THEN Some(BACKEND_CANDIDATES[i]) ELSE None

RECURSIVE FirstCandidate(_, _)
FirstCandidate(e, i) ==
    IF i > Len(BACKEND_CANDIDATES) THEN None
    ELSE IF _addon_exists(e, BACKEND_CANDIDATES[i])
         THEN Some(BACKEND_CANDIDATES[i])
         ELSE FirstCandidate(e, i + 1)

_discover_backend_enumerate_first(e) ==
    LET listed == EnumerateFallback(e.rpc) IN
    IF listed.ret # None THEN listed ELSE Returned(FirstCandidate(e, 1))

_discover_backend(e) ==
    LET candidate == FirstCandidate(e, 1) IN
    IF candidate # None THEN Returned(candidate) ELSE EnumerateFallback(e.rpc)

(***************************************************************************)
(* Strategy construction and selection (backend/prime_api.py).             *)
(***************************************************************************)
\* the groups of accessor names a module or an instance is probed for
Groups == {"home", "rail", "search", "play"}

\* a candidate module of the backend add-on: whether it imports, the groups
\* it has a module-level callable for, and its candidate classes in
\* CLASS_CANDIDATES order (whether each instantiates, the groups it has a
\* method for)
Module(imports, funcs, classes) ==
    [imports |-> imports, funcs |-> funcs, classes |-> classes]
Class(instantiates, methods) == [instantiates |-> instantiates, methods |-> methods]

_has_methods(instance) == Groups \subseteq instance.methods

\* None, or what gets bound: the module itself or an instance of a class
_extract_api(module) ==
    IF Groups \subseteq module.funcs THEN Some("module")
    ELSE IF \E i \in 1..Len(module.classes) :
               module.classes[i].instantiates /\ _has_methods(module.classes[i])
         THEN Some("instance")
         ELSE None

\* _DirectBackendStrategy.__init__ / _prepare: TRUE when construction succeeds
Direct_init(e, backend_id) ==
    /\ backend_id \in e.installed
    /\ \E i \in 1..Len(e.mods) :
          e.mods[i].imports /\ _extract_api(e.mods[i]) # None

\* _IndirectBackendStrategy.__init__: xbmcaddon.Addon(backend_id) must construct
Indirect_init(e, backend_id) == backend_id \in e.installed

Selected(name, attempts, errors) ==
    [strategy |-> Some(name), attempts |-> attempts, errors |-> errors,
     raised |-> FALSE, exc |-> None]
\* raise BackendError("No backend strategy available: " + "; ".join(errors))
NoStrategy(attempts, errors) ==
    [strategy |-> None, attempts |-> attempts, errors |-> errors, raised |-> TRUE,
     exc |-> Some("BackendError")]

_select_strategy_direct_only(e, backend_id) ==
    IF Direct_init(e, backend_id)
    THEN Selected("direct", <<"direct">>, <<>>)
    ELSE NoStrategy(<<"direct">>, <<"direct">>)

_select_strategy(e, backend_id) ==
    IF Direct_init(e, backend_id)
    THEN Selected("direct", <<"direct">>, <<>>)
    ELSE IF Indirect_init(e, backend_id)
    THEN Selected("indirect", <<"direct", "indirect">>, <<"direct">>)
    ELSE NoStrategy(<<"direct", "indirect">>, <<"direct", "indirect">>)

(***************************************************************************)
(* Inputs of discovery and selection.                                      *)
(***************************************************************************)
AmazonX == <<"plugin.video.", "amazon", "x">>
AmazonUpper == <<"PLUGIN.VIDEO.", "AMAZON", "x">>
Netflix == <<"plugin.video.", "netflix">>

CandidateIds == {BACKEND_CANDIDATES[i] : i \in 1..Len(BACKEND_CANDIDATES)}

Entries ==
    {AddonEntry(Some(AmazonX)), AddonEntry(Some(AmazonUpper)),
     AddonEntry(Some(Netflix)), AddonEntry(None), BadEntry}

RECURSIVE SeqsUpTo(_, _)
SeqsUpTo(S, n) ==
    IF n = 0 THEN {<<>>}
    ELSE LET shorter == SeqsUpTo(S, n - 1) IN
         shorter \cup {Append(q, x) : q \in shorter, x \in S}

RpcAnswers ==
    {RpcRaises, RpcBadJson, RpcNotObject}
        \cup {RpcAddons(a) : a \in SeqsUpTo(Entries, MaxEnum)}

FuncsAll == Module(TRUE, Groups, <<>>)
FuncsNoSearch == Module(TRUE, Groups \ {"search"}, <<>>)
ClassAll == Module(TRUE, {}, <<Class(FALSE, Groups), Class(TRUE, Groups)>>)
ClassNoHome == Module(TRUE, {"home"}, <<Class(TRUE, Groups \ {"home"})>>)
NoImport == Module(FALSE, {}, <<>>)

ModuleKinds == {FuncsAll, FuncsNoSearch, ClassAll, ClassNoHome, NoImport}

\* the four names of MODULE_CANDIDATES
NumModules == 4

(***************************************************************************)
(* State machine of discovery.                                             *)
(***************************************************************************)
InitDiscover ==
    /\ files = [k \in CacheKeys |-> Absent]
    /\ now = 0
    /\ last = [op |-> "init"]
    /\ env \in [installed : SUBSET CandidateIds, rpc : RpcAnswers]
    /\ sel = [pc |-> "start"]

Discover ==
    /\ sel.pc = "start"
    /\ \E r \in {_discover_backend(env)} :
          sel' = [pc |-> "done", ret |-> r.ret, raised |-> r.raised]
    /\ UNCHANGED <<files, now, last, env>>

NextDiscover == Discover

SpecDiscover == InitDiscover /\ [][NextDiscover]_vars

(***************************************************************************)
(* State machine of strategy selection for a discovered backend id.        *)
(***************************************************************************)
InitSelect ==
    /\ files = [k \in CacheKeys |-> Absent]
    /\ now = 0
    /\ last = [op |-> "init"]
    /\ env \in [installed : SUBSET {BACKEND_CANDIDATES[3], AmazonX},
                 mods : [1..NumModules -> ModuleKinds]]
    /\ \E id \in {BACKEND_CANDIDATES[3], AmazonX} :
          sel = [pc |-> "start", backend_id |-> id]

Select ==
    /\ sel.pc = "start"
    /\ \E r \in {_select_strategy(env, sel.backend_id)} :
          sel' = [pc |-> "done", backend_id |-> sel.backend_id,
                  strategy |-> r.strategy, attempts |-> r.attempts,
                  errors |-> r.errors, raised |-> r.raised, exc |-> r.exc]
    /\ UNCHANGED <<files, now, last, env>>

NextSelect == Select

SpecSelect == InitSelect /\ [][NextSelect]_vars

(***************************************************************************)
(* Claims about discovery (SpecDiscover) and selection (SpecSelect).       *)
(***************************************************************************)
Present(i) == BACKEND_CANDIDATES[i] \in env.installed

\* C8: when some candidate is present, discovery returns the first present
\* candidate in BACKEND_CANDIDATES order, whatever else is present or listed.
C8_FirstPresentCandidate ==
    (sel.pc = "done" /\ \E i \in 1..Len(BACKEND_CANDIDATES) : Present(i))
    => /\ ~sel.raised
       /\ \E i \in 1..Len(BACKEND_CANDIDATES) :
            /\ Present(i)
            /\ \A j \in 1..(i - 1) : ~Present(j)
            /\ sel.ret = Some(BACKEND_CANDIDATES[i])

C8_Witness ==
    /\ sel.pc = "done"
    /\ env.installed = {BACKEND_CANDIDATES[2], BACKEND_CANDIDATES[4],
                        BACKEND_CANDIDATES[5]}
    /\ env.rpc = RpcAddons(<<AddonEntry(Some(AmazonX))>>)
    /\ sel.ret = Some(BACKEND_CANDIDATES[2])

\* the position of the first listed entry whose lower-cased id starts with
\* the known prefix
Matches(entry) ==
    /\ entry.shape = "dict"
    /\ entry.addonid # None
    /\ StartsWith(Lower(entry.addonid[1]), KnownPrefix)

\* C9: discovery never raises; with no candidate present it returns the first
\* listed id that matches the known prefix, and None when nothing matches or
\* the enumeration fails (the call raises, the answer does not decode, or an
\* entry before the first match is malformed).
C9_FallbackNeverRaises ==
    sel.pc = "done"
    => /\ ~sel.raised
       /\ (\A i \in 1..Len(BACKEND_CANDIDATES) : ~Present(i))
            => LET a == env.rpc.addons
                   hits == {i \in 1..Len(a) :
                              /\ Matches(a[i])
                              /\ \A j \in 1..(i - 1) :
                                    a[j].shape = "dict" /\ ~Matches(a[j])}
               IN IF env.rpc.kind = "ok" /\ hits # {}
                  THEN \E i \in hits : sel.ret = a[i].addonid
                  ELSE sel.ret = None

C9_Witness ==
    /\ sel.pc = "done"
    /\ env.installed = {}
    /\ env.rpc = RpcAddons(<<AddonEntry(Some(Netflix)), AddonEntry(Some(AmazonUpper))>>)
    /\ sel.ret = Some(AmazonUpper)

\* C10: selection constructs the Direct strategy first and the RPC strategy
\* only after Direct failed; when Direct fails and the RPC construction
\* succeeds (the add-on exists) selection returns the RPC strategy, and it
\* raises only when both constructions failed.
C10_DirectThenRpc ==
    sel.pc = "done"
    => /\ sel.attempts[1] = "direct"
       /\ sel.attempts = (IF sel.errors = <<>> THEN <<"direct">>
                          ELSE <<"direct", "indirect">>)
       /\ (sel.errors = <<>>) = (sel.strategy = Some("direct"))
       /\ (sel.errors = <<"direct">>) = (sel.strategy = Some("indirect"))
       /\ sel.raised = (sel.errors = <<"direct", "indirect">>)
       /\ sel.raised = (sel.strategy = None)
       /\ (sel.errors # <<>> /\ sel.backend_id \in env.installed)
            => (~sel.raised /\ sel.strategy = Some("indirect"))

C10_Witness ==
    /\ sel.pc = "done"
    /\ sel.backend_id \in env.installed
    /\ \A i \in 1..NumModules : env.mods[i] \in {NoImport, FuncsNoSearch}
    /\ sel.attempts = <<"direct", "indirect">>
    /\ sel.strategy = Some("indirect")
    /\ ~sel.raised

\* C11: when both constructions fail, selection raises BackendUnavailable,
\* each strategy having been attempted exactly once, and the error names the
\* failure of both strategies.
C11_BothFailRaiseBackendUnavailable ==
    (sel.pc = "done" /\ sel.backend_id \notin env.installed)
    => /\ sel.raised
       /\ sel.exc = Some("BackendUnavailable")
       /\ sel.attempts = <<"direct", "indirect">>
       /\ sel.errors = <<"direct", "indirect">>

(***************************************************************************)
(* The preflight gate (preflight.py).                                      *)
(***************************************************************************)
INPUTSTREAM_ADDON_ID == <<"inputstream.", "adaptive">>

\* the answer to Addons.GetAddonDetails: the call raises or does not decode to
\* an object, or "enabled" is read as a bool (Some) or as anything else (None)
IsaRaises == [kind |-> "raise", enabled |-> None]
IsaEnabled(enabled) == [kind |-> "ok", enabled |-> enabled]

_has_inputstream(e) ==
    IF e.isa.kind = "ok" /\ e.isa.enabled # None
    THEN e.isa.enabled[1]
    ELSE _addon_exists(e, INPUTSTREAM_ADDON_ID)

\* str.strip() on a sequence of symbols, " " being the blank
RECURSIVE LStrip(_)
LStrip(s) == IF s # <<>> /\ Head(s) = " " THEN LStrip(Tail(s)) ELSE s
RECURSIVE RStrip(_)
RStrip(s) ==
    IF s # <<>> /\ s[Len(s)] = " " THEN RStrip(SubSeq(s, 1, Len(s) - 1)) ELSE s
Strip(s) == RStrip(LStrip(s))

ReadyWords == {<<"true">>, <<"yes">>, <<"ready">>}
NotReadyWords == {<<"false">>, <<"no">>, <<"not", " ", "ready">>, <<"unavailable">>}

\* the answer to Addons.ExecuteAddon {"action": "is_drm_ready"}: the call
\* raises or the text does not decode to an object; "result" is not an object;
\* or result["value"] is absent (None), a string, a bool, or an object whose
\* "ready" is a bool (Some) or anything else (None)
DrmRaises == [kind |-> "raise", value |-> None]
DrmResultNotDict == [kind |-> "nondict", value |-> None]
DrmValue(value) == [kind |-> "ok", value |-> value]
DrmStr(s) == Some([ty |-> "str", v |-> s])
DrmBool(b) == Some([ty |-> "bool", v |-> b])
DrmDict(ready) == Some([ty |-> "dict", v |-> ready])

\* Optional[bool]: Some(TRUE), Some(FALSE) or None
_backend_drm_ready_strict(e, addon_id) ==
    IF e.drm.kind = "ok" /\ e.drm.value = DrmBool(TRUE) THEN Some(TRUE) ELSE Some(FALSE)

_backend_drm_ready(e, addon_id) ==
    IF e.drm.kind # "ok" \/ e.drm.value = None THEN None
    ELSE LET value == e.drm.value[1] IN
         CASE value.ty = "str" ->
                LET lowered == Lower(Strip(value.v)) IN
                IF lowered \in ReadyWords THEN Some(TRUE)
                ELSE IF lowered \in NotReadyWords THEN Some(FALSE)
                ELSE None
           [] value.ty = "bool" -> Some(value.v)
           [] value.ty = "dict" -> value.v

\* the outcome of ensure_ready_or_raise: the backend id or a PreflightError
\* with its message id, and the checks that were evaluated, in order
Ready(backend_id, checks) ==
    [ret |-> backend_id, raised |-> FALSE, message |-> None, checks |-> checks]
PreflightError(message, checks) ==
    [ret |-> None, raised |-> TRUE, message |-> Some(message), checks |-> checks]

ensure_ready_or_raise(e, target_backend) ==
    LET backend_id == IF target_backend = None
                      THEN _discover_backend(e).ret ELSE target_backend
    IN
    IF backend_id = None THEN PreflightError("#21090", <<"backend">>)
    ELSE IF ~_has_inputstream(e)
    THEN PreflightError("#21100", <<"backend", "inputstream">>)
    ELSE IF _backend_drm_ready(e, backend_id[1]) = Some(FALSE)
    THEN PreflightError("#21110", <<"backend", "inputstream", "drm">>)
    ELSE Ready(backend_id, <<"backend", "inputstream", "drm">>)

(***************************************************************************)
(* PrimeAPI.__init__: preflight, then strategy selection.                  *)
(***************************************************************************)
\* the constructed facade, or the exception that left the constructor
PrimeAPI_init(e) ==
    LET r == ensure_ready_or_raise(e, None) IN
    IF r.raised
    THEN [raised |-> TRUE, exc |-> Some("PreflightError"), message |-> r.message,
          checks |-> r.checks, backend_id |-> None, strategy |-> None,
          attempts |-> <<>>, errors |-> <<>>]
    ELSE LET s == _select_strategy(e, r.ret[1]) IN
         [raised |-> s.raised, exc |-> s.exc, message |-> None,
          checks |-> r.checks,
          backend_id |-> IF s.raised THEN None ELSE r.ret,
          strategy |-> s.strategy, attempts |-> s.attempts, errors |-> s.errors]

(***************************************************************************)
(* Inputs of construction.                                                 *)
(***************************************************************************)
IsaAnswers == {IsaRaises, IsaEnabled(None), IsaEnabled(Some(TRUE)), IsaEnabled(Some(FALSE))}

DrmAnswers ==
    {DrmRaises, DrmResultNotDict, DrmValue(None)}
        \cup {DrmValue(DrmStr(w)) :
                 w \in {<<"true">>, <<" ", "READY">>, <<"false">>, <<"NO", " ">>,
                        <<"not", " ", "ready">>, <<"maybe">>}}
        \cup {DrmValue(DrmBool(b)) : b \in BOOLEAN}
        \cup {DrmValue(DrmDict(r)) : r \in {None, Some(TRUE), Some(FALSE)}}

BootIds == {BACKEND_CANDIDATES[1], BACKEND_CANDIDATES[2], AmazonX, INPUTSTREAM_ADDON_ID}

BootRpcAnswers == {RpcRaises, RpcAddons(<<AddonEntry(Some(AmazonX))>>)}

BootMods == {[i \in 1..NumModules |-> k] : k \in {NoImport, FuncsNoSearch, ClassAll}}

(***************************************************************************)
(* State machine of PrimeAPI construction.                                 *)
(***************************************************************************)
InitBoot ==
    /\ files = [k \in CacheKeys |-> Absent]
    /\ now = 0
    /\ last = [op |-> "init"]
    /\ env \in [installed : SUBSET BootIds, rpc : BootRpcAnswers,
                 isa : IsaAnswers, drm : DrmAnswers, mods : BootMods]
    /\ sel = [pc |-> "start"]

Construct ==
    /\ sel.pc = "start"
    /\ \E r \in {PrimeAPI_init(env)} :
          sel' = [pc |-> "done", raised |-> r.raised, exc |-> r.exc,
                  message |-> r.message, checks |-> r.checks,
                  backend_id |-> r.backend_id, strategy |-> r.strategy,
                  attempts |-> r.attempts, errors |-> r.errors]
    /\ UNCHANGED <<files, now, last, env>>

\* ensure_ready_or_raise called on its own, as ui/diagnostics.py does
Preflight(target_backend) ==
    /\ sel.pc = "start"
    /\ \E r \in {ensure_ready_or_raise(env, target_backend)} :
          sel' = [pc |-> "checked", target |-> target_backend, ret |-> r.ret,
                  raised |-> r.raised, message |-> r.message, checks |-> r.checks]
    /\ UNCHANGED <<files, now, last, env>>

DoPreflight == \E target_backend \in {None, Some(AmazonX)} : Preflight(target_backend)

NextBoot == Construct \/ DoPreflight

SpecBoot == InitBoot /\ [][NextBoot]_vars

(***************************************************************************)
(* Claims about construction and the preflight gate (SpecBoot).            *)
(***************************************************************************)
\* C12: constructing PrimeAPI when no provider add-on is discovered raises
\* BackendUnavailable, and no strategy construction is attempted.
C12_NoBackendRaisesBackendUnavailable ==
    (sel.pc = "done" /\ _discover_backend(env).ret = None)
    => /\ sel.raised
       /\ sel.exc = Some("BackendUnavailable")
       /\ sel.attempts = <<>>

\* C13: end to end, when the only candidate present is the second one, no
\* candidate module offers the required callables (Direct fails) and the RPC
\* strategy is constructed successfully, the facade ends with the RPC
\* ("indirect") strategy bound to that second candidate.
C13_EndToEndFallback ==
    ( /\ sel.pc = "done"
      /\ env.installed \cap CandidateIds = {BACKEND_CANDIDATES[2]}
      /\ \A i \in 1..NumModules : _extract_api(env.mods[i]) = None
      /\ "indirect" \in {sel.attempts[i] : i \in 1..Len(sel.attempts)}
      /\ "indirect" \notin {sel.errors[i] : i \in 1..Len(sel.errors)} )
    => /\ ~sel.raised
       /\ sel.strategy = Some("indirect")
       /\ sel.backend_id = Some(BACKEND_CANDIDATES[2])

C13_Witness ==
    /\ sel.pc = "done"
    /\ env.installed = {BACKEND_CANDIDATES[2], AmazonX, INPUTSTREAM_ADDON_ID}
    /\ env.rpc = RpcAddons(<<AddonEntry(Some(AmazonX))>>)
    /\ \A i \in 1..NumModules : env.mods[i] = FuncsNoSearch
    /\ sel.attempts = <<"direct", "indirect">>
    /\ sel.errors = <<"direct">>
    /\ sel.strategy = Some("indirect")
    /\ sel.backend_id = Some(BACKEND_CANDIDATES[2])

\* the backend id the gate resolves: the given target, else the discovered one
Resolved == IF sel.target # None THEN sel.target ELSE _discover_backend(env).ret

\* the DRM answers that explicitly say "not ready"
DrmSaysFalse ==
    env.drm \in {DrmValue(DrmBool(FALSE)), DrmValue(DrmDict(Some(FALSE))),
                 DrmValue(DrmStr(<<"false">>)), DrmValue(DrmStr(<<"NO", " ">>)),
                 DrmValue(DrmStr(<<"not", " ", "ready">>))}

\* C18: DRM readiness is three-valued at the gate: with a backend resolved and
\* inputstream available, an explicit false makes ensure_ready_or_raise raise
\* PreflightError (#21110), while true or unknown (no value, an unrecognised
\* value, a result that is not an object, a failed or undecodable query) lets
\* it return the backend id.
C18_DrmThreeValued ==
    (sel.pc = "checked" /\ Resolved # None /\ _has_inputstream(env))
    => IF DrmSaysFalse
       THEN sel.raised /\ sel.message = Some("#21110") /\ sel.ret = None
       ELSE ~sel.raised /\ sel.ret = Resolved

C18_Witness ==
    /\ sel.pc = "checked"
    /\ sel.target = None
    /\ env.drm = DrmRaises
    /\ ~sel.raised
    /\ sel.ret = Some(BACKEND_CANDIDATES[2])

\* C19: every invocation of the gate evaluates all of its checks, whichever
\* of them fail.
C19_AllChecksEvaluated ==
    sel.pc = "checked"
    => {sel.checks[i] : i \in 1..Len(sel.checks)} = {"backend", "inputstream", "drm"}

(***************************************************************************)
(* Playback and DRM queries of the strategies and the facade               *)
(* (backend/prime_api.py).  A facade object is [oid, backend_id, strategy].*)
(***************************************************************************)
\* a raw playback payload: a dict with its URL synonyms and an optional
\* nested "playback" value (None: the key is absent), or a list
PlayDict(url, manifest, stream, playback) ==
    [ty |-> "dict", url |-> url, manifest |-> manifest, stream |-> stream,
     playback |-> playback]
PlayNotDict == [ty |-> "list", empty |-> FALSE]
PlayEmptyList == [ty |-> "list", empty |-> TRUE]

\* bool(v) of a payload: a dict without keys and an empty list are false
PlayTruthy(v) ==
    IF v.ty = "dict" THEN {v.url, v.manifest, v.stream, v.playback} # {None}
    ELSE ~v.empty

\* the backend's answer to a playback request: the call (the play callable,
\* or _execute) raises exc, or gives a payload
PlayFails(exc) == [err |-> TRUE, exc |-> exc, payload |-> PlayNotDict]
PlayReturns(payload) == [err |-> FALSE, exc |-> "none", payload |-> payload]

PlayRaised(exc) == [raised |-> TRUE, exc |-> Some(exc), ret |-> PlayNotDict]
PlayOk(ret) == [raised |-> FALSE, exc |-> None, ret |-> ret]

\* _DirectBackendStrategy.get_playable (lines 313-318) and
\* _IndirectBackendStrategy.get_playable (lines 420-427); neither catches
\* what the call raises
Strategy_get_playable(name, answer) ==
    IF name = "direct"
    THEN IF answer.err THEN PlayRaised(answer.exc)
         ELSE IF answer.payload.ty # "dict" THEN PlayRaised("BackendError")
         ELSE PlayOk(answer.payload)
    ELSE IF answer.err THEN PlayRaised(answer.exc)
         ELSE IF answer.payload.ty # "dict" THEN PlayRaised("BackendError")
         ELSE LET nested == answer.payload.playback
                  playback == IF nested # None /\ PlayTruthy(nested[1])
                              THEN nested[1] ELSE answer.payload
              IN IF playback.ty # "dict" THEN PlayRaised("BackendError")
                 ELSE PlayOk(playback)

\* a facade method seen as a function of the object: the object afterwards
\* and what the call returned or raised
PrimeAPI_get_playable_reselects(api, answer) ==
    LET r == Strategy_get_playable(api.strategy, answer) IN
    [api |-> IF r.raised
             THEN [api EXCEPT !.strategy = IF @ = "direct" THEN "indirect" ELSE "direct"]
             ELSE api,
     raised |-> r.raised, exc |-> r.exc, ret |-> r.ret]

PrimeAPI_get_playable(api, answer) ==
    LET r == Strategy_get_playable(api.strategy, answer) IN
    [api |-> api, raised |-> r.raised, exc |-> r.exc, ret |-> r.ret]

\* Python's `a or b` on Optional[bool] operands
BoolOr(a, b) == IF a = Some(TRUE) THEN a ELSE b

\* a dict answer to is_drm_ready with its "ready" and "drm_ready" entries
ReadyDict(ready, drm_ready) ==
    Some([ty |-> "dict", ready |-> ready, drm_ready |-> drm_ready])

\* the backend's answer to is_drm_ready: the call fails with an exception, or
\* a value (None when the backend offers no such call)
IsDrmFails(exc) == [err |-> Some(exc), value |-> None]
IsDrmReturns(value) == [err |-> None, value |-> value]

\* the reading of a returned value shared by both strategies
ReadDrmValue(value) ==
    IF value = None THEN None
    ELSE CASE value[1].ty = "bool" -> Some(value[1].v)
           [] value[1].ty = "str" ->
                LET lowered == Lower(Strip(value[1].v)) IN
                IF lowered \in ReadyWords THEN Some(TRUE)
                ELSE IF lowered \in NotReadyWords THEN Some(FALSE)
                ELSE None
           [] value[1].ty = "dict" -> BoolOr(value[1].ready, value[1].drm_ready)

\* _DirectBackendStrategy.is_drm_ready swallows every exception,
\* _IndirectBackendStrategy.is_drm_ready only BackendError
Strategy_is_drm_ready(name, answer) ==
    IF answer.err # None
    THEN IF name = "direct" \/ answer.err = Some("BackendError")
         THEN [raised |-> FALSE, exc |-> None, ret |-> None]
         ELSE [raised |-> TRUE, exc |-> answer.err, ret |-> None]
    ELSE [raised |-> FALSE, exc |-> None, ret |-> ReadDrmValue(answer.value)]

PrimeAPI_is_drm_ready(api, answer) ==
    LET r == Strategy_is_drm_ready(api.strategy, answer) IN
    [api |-> api, raised |-> r.raised, exc |-> r.exc, ret |-> r.ret]

(***************************************************************************)
(* get_backend: the lazily constructed module-level PrimeAPI instance.     *)
(* sel holds _backend_instance (None or the oid of an object), the facade  *)
(* objects constructed so far (objs, indexed by oid), the holder of        *)
(* _backend_lock, and for every calling thread its position in             *)
(* get_backend, the object it was handed and the exception it got.         *)
(***************************************************************************)

\* the test of line 613, made while holding _backend_lock
SecondCheck_skipped(instance) ==
    TRUE

SecondCheck(instance) ==
    instance = None

\* environments of a process: the direct strategy binds, only the indirect
\* one binds, the preflight gate fails, both strategies fail
EnvWith(installed, rpc, kind) ==
    [installed |-> installed, rpc |-> rpc, isa |-> IsaRaises, drm |-> DrmRaises,
     mods |-> [i \in 1..NumModules |-> kind]]

BackendEnvs ==
    { EnvWith({BACKEND_CANDIDATES[2], INPUTSTREAM_ADDON_ID}, RpcRaises, FuncsAll),
      EnvWith({BACKEND_CANDIDATES[2], INPUTSTREAM_ADDON_ID}, RpcRaises, FuncsNoSearch),
      EnvWith({}, RpcRaises, FuncsAll),
      EnvWith({INPUTSTREAM_ADDON_ID}, RpcAddons(<<AddonEntry(Some(AmazonX))>>), FuncsAll) }

InitBackend ==
    /\ files = [k \in CacheKeys |-> Absent]
    /\ now = 0
    /\ last = [op |-> "init"]
    /\ env \in BackendEnvs
    /\ sel = [instance |-> None, objs |-> <<>>, lock |-> None,
              pc |-> [p \in Threads |-> "start"],
              got |-> [p \in Threads |-> None],
              exc |-> [p \in Threads |-> None],
              constructions |-> 0, selections |-> 0,
              th |-> [p \in Threads |-> NoCall]]

\* line 611: the unlocked test of _backend_instance
Check1(p) ==
    /\ sel.pc[p] = "start"
    /\ sel' = [sel EXCEPT !.pc[p] = IF sel.instance = None THEN "wait" ELSE "return"]
    /\ UNCHANGED <<files, now, last, env>>

\* line 612: with _backend_lock
Acquire(p) ==
    /\ sel.pc[p] = "wait"
    /\ sel.lock = None
    /\ sel' = [sel EXCEPT !.pc[p] = "locked", !.lock = Some(p)]
    /\ UNCHANGED <<files, now, last, env>>

\* lines 613-614 and the release of the lock: the test under the lock, the
\* construction and the assignment; an exception of the constructor leaves
\* the with block and get_backend
Build(p) ==
    /\ sel.pc[p] = "locked"
    /\ IF SecondCheck(sel.instance)
       THEN \E r \in {PrimeAPI_init(env)} :
              LET oid == Len(sel.objs) + 1
                  ran == IF r.attempts # <<>> THEN 1 ELSE 0
              IN IF r.raised
                 THEN sel' = [sel EXCEPT !.pc[p] = "failed", !.lock = None,
                                         !.exc[p] = r.exc,
                                         !.constructions = @ + 1,
                                         !.selections = @ + ran]
                 ELSE sel' = [sel EXCEPT !.pc[p] = "return", !.lock = None,
                                         !.instance = Some(oid),
                                         !.objs = Append(@, [oid |-> oid,
                                                    backend_id |-> r.backend_id[1],
                                                    strategy |-> r.strategy[1]]),
                                         !.constructions = @ + 1,
                                         !.selections = @ + ran]
       ELSE sel' = [sel EXCEPT !.pc[p] = "return", !.lock = None]
    /\ UNCHANGED <<files, now, last, env>>

\* line 615: return _backend_instance
Return(p) ==
    /\ sel.pc[p] = "return"
    /\ sel' = [sel EXCEPT !.pc[p] = "has", !.got[p] = sel.instance]
    /\ UNCHANGED <<files, now, last, env>>

(***************************************************************************)
(* Content operations on the instance a thread was handed.                 *)
(***************************************************************************)
DirectAnswers ==
    { DirectFails("BackendError"), DirectFails("RuntimeError"),
      DirectReturns(PayRailData(<<NoId>>, None)),
      DirectReturns(PayDict(None, Some(<<GoodA, RawScalar, NoTitle>>), None,
                            None, RawStr(<<"c">>))),
      DirectReturns(PayList(<<GoodB, NoId>>)),
      DirectReturns(PayOther) }

\* the answers the strategy of a facade object can be given
FetchAnswers(api) == IF api.strategy = "direct" THEN DirectAnswers ELSE Answers

UrlOnly == PlayDict(Some(<<"u">>), None, None, None)
ManifestOnly == PlayDict(None, Some(<<"m">>), None, None)
NoUrl == PlayDict(None, None, None, None)

PlayAnswers ==
    { PlayFails("BackendError"), PlayFails("RuntimeError"),
      PlayReturns(PlayNotDict), PlayReturns(UrlOnly), PlayReturns(NoUrl),
      PlayReturns(PlayDict(None, None, None, Some(ManifestOnly))),
      PlayReturns(PlayDict(Some(<<"u">>), None, None, Some(NoUrl))),
      PlayReturns(PlayDict(Some(<<"u">>), None, None, Some(PlayEmptyList))),
      PlayReturns(PlayDict(Some(<<"u">>), None, None, Some(PlayNotDict))) }

IsDrmAnswers ==
    { IsDrmFails("BackendError"), IsDrmFails("RuntimeError"), IsDrmReturns(None),
      IsDrmReturns(DrmBool(TRUE)), IsDrmReturns(DrmStr(<<"NO", " ">>)),
      IsDrmReturns(ReadyDict(Some(FALSE), None)),
      IsDrmReturns(ReadyDict(None, Some(TRUE))) }

\* the facade object thread p holds
Held(p) == sel.objs[sel.got[p][1]]

GetPlayable(p, answer) ==
    /\ sel.pc[p] = "has"
    /\ ~InProgress(sel.th[p])
    /\ \E r \in {PrimeAPI_get_playable(Held(p), answer)} :
          sel' = [sel EXCEPT !.objs[sel.got[p][1]] = r.api,
                             !.th[p] = [op |-> "get_playable", pc |-> "done",
                                        strategy |-> Held(p).strategy,
                                        answer |-> answer, raised |-> r.raised,
                                        exc |-> r.exc, ret |-> r.ret]]
    /\ UNCHANGED <<files, now, last, env>>

IsDrmReady(p, answer) ==
    /\ sel.pc[p] = "has"
    /\ ~InProgress(sel.th[p])
    /\ \E r \in {PrimeAPI_is_drm_ready(Held(p), answer)} :
          sel' = [sel EXCEPT !.objs[sel.got[p][1]] = r.api,
                             !.th[p] = [op |-> "is_drm_ready", pc |-> "done",
                                        strategy |-> Held(p).strategy,
                                        answer |-> answer, raised |-> r.raised,
                                        exc |-> r.exc, ret |-> r.ret]]
    /\ UNCHANGED <<files, now, last, env>>

DoGetPlayable(p) == \E answer \in PlayAnswers : GetPlayable(p, answer)

DoIsDrmReady(p) == \E answer \in IsDrmAnswers : IsDrmReady(p, answer)

\* the thread calls get_rail or search on the object it holds; the call then
\* runs step by step, beside the calls of the other threads
HeldGetRail(p) ==
    /\ sel.pc[p] = "has"
    /\ \E use_cache \in CallUseCache(p), force_refresh \in CallForce(p) :
          GetRail(p, <<"a">>, None, MaxTtl, use_cache, force_refresh)

HeldSearch(p) ==
    /\ sel.pc[p] = "has"
    /\ \E query \in CallQueries(p), use_cache \in CallUseCache(p) :
          Search(p, query, None, MaxTtl, use_cache)

\* the strategy of the held object answers the call in progress
HeldFetch(p) ==
    /\ sel.pc[p] = "has"
    /\ \E answer \in FetchAnswers(Held(p)) : Fetch(p, answer)

NextBackend ==
    \E p \in Threads :
       \/ Check1(p) \/ Acquire(p) \/ Build(p) \/ Return(p)
       \/ DoGetPlayable(p) \/ DoIsDrmReady(p) \/ HeldGetRail(p) \/ HeldSearch(p)
       \/ LookUp(p) \/ TestTtl(p) \/ HeldFetch(p) \/ ReadClock(p) \/ WriteFile(p)

SpecBackend == InitBackend /\ [][NextBackend]_vars

(***************************************************************************)
(* Claims about get_backend and the content operations (SpecBackend).      *)
(***************************************************************************)
SameInstance ==
    \A p, q \in Threads :
       (sel.got[p] # None /\ sel.got[q] # None) => sel.got[p] = sel.got[q]

\* C14 as stated: under any interleaving, PrimeAPI construction (strategy
\* selection) happens at most once per process and every caller receives the
\* same instance.
C14_SelectionAtMostOnce ==
    /\ sel.constructions <= 1
    /\ sel.selections <= 1
    /\ SameInstance

\* C14 amended: under any interleaving at most one construction succeeds,
\* every caller that returns receives that one instance, and no construction
\* is started once an instance exists; a construction that raised is not
\* memoized, so each later caller constructs again.
C14_OneInstancePerProcess ==
    /\ Len(sel.objs) <= 1
    /\ SameInstance
    /\ \A p \in Threads : sel.pc[p] = "has" => sel.got[p] = Some(1) /\ sel.instance = Some(1)
    /\ sel.constructions > 1 => \A p \in Threads : sel.pc[p] = "failed" /\ sel.exc[p] # None
    /\ sel.constructions = Len(sel.objs) + Cardinality({p \in Threads : sel.pc[p] = "failed"})

C14_Witness ==
    /\ \A p \in Threads : sel.pc[p] = "has" /\ sel.got[p] = Some(1)
    /\ sel.constructions = 1
    /\ Len(sel.objs) = 1

\* C15: once an instance exists, its backend_id and strategy never change
\* and neither construction nor selection runs again, whatever content
\* operation is performed and whether it returns or raises.
C15_SelectionIsStable ==
    [][sel.instance # None
       => /\ sel'.instance = sel.instance
          /\ sel'.objs = sel.objs
          /\ sel'.constructions = sel.constructions
          /\ sel'.selections = sel.selections
          /\ \A p \in Threads : sel.got[p] # None => sel'.got[p] = sel.got[p]]_vars

C15_Witness ==
    /\ \E p \in Threads :
          /\ sel.th[p].op = "get_playable"
          /\ sel.th[p].raised /\ sel.th[p].exc = Some("BackendError")
    /\ sel.instance = Some(1)
    /\ sel.objs[1].strategy = "indirect"
    /\ sel.objs[1].backend_id = BACKEND_CANDIDATES[2]
    /\ sel.selections = 1

\* an item, raw or normalised, has a non-empty id and a non-empty title
HasIdAndTitle(item) ==
    IF "ty" \in DOMAIN item
    THEN /\ item.ty = "dict"
         /\ StrOr(item.asin, item.id) # None
         /\ StrOr(item.title, None) # None
    ELSE item.asin # <<>> /\ item.title # <<>>

\* C16: every item of a RailData returned by get_rail or search, on either
\* strategy, has a non-empty id and title.
C16_ItemsHaveIdAndTitle ==
    \A p \in Threads :
       LET c == sel.th[p] IN
       (Done(c) /\ IsFetch(c) /\ ~c.raised)
       => \A i \in 1..Len(c.data.items) : HasIdAndTitle(c.data.items[i])

\* a playback dict carries a URL under one of its synonyms
HasUrl(payload) == StrOr(payload.url, StrOr(payload.manifest, payload.stream)) # None

\* C17: get_playable raises BackendError when the raw payload has no URL
\* under any synonym, and returns the playable without raising when the
\* payload is a dict with a URL.
C17_PlayableHasUrl ==
    \A p \in Threads :
       LET l == sel.th[p] IN
       l.op = "get_playable"
       => /\ ~l.raised => HasUrl(l.ret)
          /\ (/\ ~l.answer.err
              /\ l.answer.payload.ty = "dict"
              /\ l.answer.payload.playback = None
              /\ HasUrl(l.answer.payload))
               => (~l.raised /\ l.ret = l.answer.payload)

(***************************************************************************)
(* ui/diagnostics.py show_results in a fresh process.  The handler reads   *)
(* the clock between its backend calls, so it is modelled by its segments: *)
(* the gate and get_backend (lines 95-102), one iteration of the loop      *)
(* (lines 105-124), the rail fetch and the listing (lines 126-179).        *)
(* events lists, in order, the strategy constructions ("direct",           *)
(* "indirect"), cache clears ("clear_prefix"), facade calls ("home:force", *)
(* "home:default", "rail:force"), strategy fetches ("fetch") and directory *)
(* listings ("emit") of the invocation.                                    *)
(***************************************************************************)
HomeKey == <<"home", "::", "rails">>

FetchEvents(calls) == IF calls > 0 THEN <<"fetch">> ELSE <<>>

\* lines 95-102: the gate, get_backend() constructing PrimeAPI, the settings
show_results_begin_clears_first(e, fs, ttl, use_cache) ==
    LET gate == ensure_ready_or_raise(e, None)
        api == PrimeAPI_init(e)
        d == [pc |-> "finished", exc |-> None, notified |-> FALSE,
              events |-> <<"clear_prefix">>, runs |-> <<>>, run |-> 1, ttl |-> ttl,
              use_cache |-> use_cache, items |-> 0, before |-> fs]
        cleared == Cache_clear_prefix(fs, CHOOSE listing \in Listings(fs) : TRUE,
                                      <<"home", "::">>)
    IN
    IF gate.raised THEN [d |-> [d EXCEPT !.exc = Some("PreflightError")], files |-> cleared]
    ELSE IF api.raised
    THEN [d |-> [d EXCEPT !.exc = api.exc, !.events = @ \o api.attempts], files |-> cleared]
    ELSE [d |-> [d EXCEPT !.pc = "run", !.events = @ \o api.attempts], files |-> cleared]

show_results_begin(e, fs, ttl, use_cache) ==
    LET gate == ensure_ready_or_raise(e, None)
        api == PrimeAPI_init(e)
        d == [pc |-> "finished", exc |-> None, notified |-> FALSE,
              events |-> <<>>, runs |-> <<>>, run |-> 1, ttl |-> ttl,
              use_cache |-> use_cache, items |-> 0, before |-> fs]
    IN
    IF gate.raised THEN [d |-> [d EXCEPT !.exc = Some("PreflightError")], files |-> fs]
    ELSE IF api.raised
    THEN [d |-> [d EXCEPT !.exc = api.exc, !.events = api.attempts], files |-> fs]
    ELSE [d |-> [d EXCEPT !.pc = "run", !.events = api.attempts], files |-> fs]

\* lines 105-111, the first iteration of "for run in range(1, 4)": run 1
\* clears the "home::" entries (line 108), then line 111 evaluates
\* backend.get_home_rails, which PrimeAPI does not define; the AttributeError
\* is not a BackendError, so nothing is notified and it leaves show_results.
\* Lines 112-124 and the later iterations are never reached.
show_results_run(d, fs, listing) ==
    LET force_refresh == d.run = 1
        fs1 == IF force_refresh THEN Cache_clear_prefix(fs, listing, <<"home", "::">>)
               ELSE fs
    IN
    [d |-> [d EXCEPT !.pc = "finished",
                     !.events = @ \o (IF force_refresh THEN <<"clear_prefix">> ELSE <<>>),
                     !.exc = Some("AttributeError")],
     files |-> fs1]

\* lines 126-179 (not reached as the repository is): one forced rail fetch,
\* whose BackendError is absorbed (lines 130-131) while any other exception
\* leaves show_results; then one item per run, one for the rail unless the
\* fetch raised, and one for the strategy, handed to addDirectoryItems in one
\* call
show_results_rail(d, fs, t, answer) ==
    LET r == PrimeAPI_get_rail(fs, t, <<"movies">>, None, d.ttl, d.use_cache, TRUE,
                               answer)
    IN
    IF r.raised /\ r.exc # Some("BackendError")
    THEN [d |-> [d EXCEPT !.pc = "finished",
                          !.events = @ \o <<"rail:force">> \o FetchEvents(r.calls),
                          !.exc = r.exc],
          files |-> r.files]
    ELSE [d |-> [d EXCEPT !.pc = "finished",
                          !.events = @ \o <<"rail:force">> \o FetchEvents(r.calls)
                                       \o <<"emit">>,
                          !.items = Len(d.runs) + (IF r.raised THEN 0 ELSE 1) + 1],
          files |-> r.files]

(***************************************************************************)
(* State machine of a diagnostics session.                                 *)
(***************************************************************************)
\* what an earlier session may have left under a "home::" key
HomeRails == PyList(<<[id |-> <<"movies">>, title |-> <<"T">>]>>)

DiagKeys == {HomeKey, RailKey(<<"movies">>, None)}

DiagEnvs ==
    BackendEnvs
        \cup {[EnvWith({BACKEND_CANDIDATES[2], INPUTSTREAM_ADDON_ID}, RpcRaises, FuncsAll)
                 EXCEPT !.isa = IsaEnabled(Some(FALSE))]}

\* the cache may hold the home entry of an earlier session
InitDiag ==
    /\ files \in {[k \in DiagKeys |-> Absent],
                  [k \in DiagKeys |-> IF k = HomeKey THEN Entry(0, HomeKey, HomeRails)
                                      ELSE Absent]}
    /\ now = 0
    /\ last = [op |-> "init"]
    /\ env \in DiagEnvs
    /\ sel = [pc |-> "start"]

DiagBegin ==
    /\ sel.pc = "start"
    /\ \E ttl \in TTLs, use_cache \in BOOLEAN :
          \E r \in {show_results_begin(env, files, ttl, use_cache)} :
             /\ sel' = r.d
             /\ files' = r.files
    /\ UNCHANGED <<now, last, env>>

DiagRun ==
    /\ sel.pc = "run"
    /\ \E listing \in Listings(files) :
       \E r \in {show_results_run(sel, files, listing)} :
          /\ sel' = r.d
          /\ files' = r.files
    /\ UNCHANGED <<now, last, env>>

NextDiag == DiagBegin \/ DiagRun \/ Construct \/ Tick

SpecDiag == InitDiag /\ [][NextDiag]_vars

(***************************************************************************)
(* Claims about the diagnostics session (SpecDiag).                        *)
(***************************************************************************)
\* C20: when the gate raises PreflightError, the invocation constructs no
\* strategy, clears no cache entry, fetches nothing and emits no item.
C20_NothingBeforePreflight ==
    /\ (sel.pc = "finished" /\ sel.exc = Some("PreflightError"))
         => (sel.events = <<>> /\ sel.items = 0 /\ files = sel.before)
    /\ (sel.pc = "done" /\ sel.exc = Some("PreflightError"))
         => (sel.attempts = <<>> /\ sel.strategy = None)

C20_Witness ==
    /\ sel.pc = "finished"
    /\ sel.exc = Some("PreflightError")
    /\ BACKEND_CANDIDATES[2] \in env.installed
    /\ env.isa = IsaEnabled(Some(FALSE))
    /\ files[HomeKey].st = "dict"
    /\ sel.events = <<>>

InSession == sel.pc \in {"run", "rail", "finished"}

\* the invocation passed the gate and the construction, entered the loop of
\* home runs and ended without a backend failure being notified
LoopEnded ==
    /\ InSession
    /\ sel.pc = "finished"
    /\ \E i \in DOMAIN sel.events : sel.events[i] = "clear_prefix"
    /\ ~sel.notified

\* C21: in a diagnostics session run 1 reports from_cache = false, and run 2
\* reports from_cache = true when caching is enabled and no more than the
\* TTL has passed since run 1.
C21_ColdThenWarm ==
    LoopEnded =>
       /\ Len(sel.runs) >= 2
       /\ sel.runs[1].state = "cold" /\ ~sel.runs[1].from_cache
       /\ (sel.use_cache /\ sel.runs[2].at - sel.runs[1].at <= sel.ttl)
            => sel.runs[2].from_cache

IsHomeEvent(ev) == ev \in {"clear_prefix", "home:force", "home:default"}

\* C22: a session in which no run fails makes exactly three home runs, with
\* clear_prefix called once, before run 1, run 1 forced and runs 2 and 3 on
\* default caching.
C22_ThreeRunsOneClear ==
    LoopEnded =>
       /\ Len(sel.runs) = 3
       /\ SelectSeq(sel.events, IsHomeEvent)
            = <<"clear_prefix", "home:force", "home:default", "home:default">>
       /\ <<sel.runs[1].state, sel.runs[2].state, sel.runs[3].state>>
            = <<"cold", "warm", "warm">>

(***************************************************************************)
(* Plug-in URLs (router.py).  A string is the sequence of its characters;  *)
(* a parameter name or an action name is one unreserved symbol.            *)
(* urllib.parse.urlencode quotes with quote_plus; parse_qsl splits on "&"  *)
(* and "=", drops blank values, turns "+" into a space and decodes %XX.    *)
(***************************************************************************)
\* the characters U+0020 to U+007E in code order: Printable[i] has code 31 + i
\* ("grave" is the one character U+0060)
Printable ==
    <<
       " ", "!", "\"", "#", "$", "%", "&", "'", "(", ")", "*", "+", ",", "-", ".", "/",
       "0", "1", "2", "3", "4", "5", "6", "7", "8", "9", ":", ";", "<", "=", ">", "?",
       "@", "A", "B", "C", "D", "E", "F", "G", "H", "I", "J", "K", "L", "M", "N", "O",
       "P", "Q", "R", "S", "T", "U", "V", "W", "X", "Y", "Z", "[", "\\", "]", "^", "_",
       "grave", "a", "b", "c", "d", "e", "f", "g", "h", "i", "j", "k", "l", "m", "n", "o",
       "p", "q", "r", "s", "t", "u", "v", "w", "x", "y", "z", "{", "|", "}", "~"
    >>

CharCode(c) == 31 + (CHOOSE i \in 1..Len(Printable) : Printable[i] = c)

HexSeq == <<"0", "1", "2", "3", "4", "5", "6", "7", "8", "9", "A", "B", "C", "D", "E", "F">>

\* urllib.parse._ALWAYS_SAFE: letters, digits and "_", ".", "-", "~"
AlwaysSafe ==
    {Printable[i] : i \in (17..26) \cup (34..59) \cup (66..91)} \cup {"_", ".", "-", "~"}

\* quote_plus of one character: a space becomes "+", a safe character stays,
\* any other character becomes %XX in upper case; a word symbol (a parameter
\* or action name) is made of safe characters
QuoteChar(c) ==
    IF c = " " THEN <<"+">>
    ELSE IF c \in AlwaysSafe THEN <<c>>
    ELSE IF \E i \in 1..Len(Printable) : Printable[i] = c
    THEN <<"%", HexSeq[(CharCode(c) \div 16) + 1], HexSeq[(CharCode(c) % 16) + 1]>>
    ELSE <<c>>

RECURSIVE quote_plus(_)
quote_plus(s) ==
    IF s = <<>> THEN <<>> ELSE QuoteChar(Head(s)) \o quote_plus(Tail(s))

\* a value that is a Python int where a str is expected (a RailData cursor
\* of the direct strategy): its decimal digits after the mark "int"
PyIntCursor(digits) == <<"int">> \o digits

IsIntCursor(v) == v # <<>> /\ Head(v) = "int"

\* str(v)
PyStr(v) == IF IsIntCursor(v) THEN Tail(v) ELSE v

\* bool(cursor) of an Optional cursor
CursorTruthy(cursor) ==
    /\ cursor # None
    /\ IF IsIntCursor(cursor[1]) THEN Tail(cursor[1]) # <<"0">> ELSE cursor[1] # <<>>

\* urlencode of a sequence of <<name, value>> pairs: a value that is no str
\* is quoted as its str()
RECURSIVE urlencode(_)
urlencode(pairs) ==
    IF pairs = <<>> THEN <<>>
    ELSE quote_plus(Head(pairs)[1]) \o <<"=">> \o quote_plus(PyStr(Head(pairs)[2]))
           \o (IF Tail(pairs) = <<>> THEN <<>> ELSE <<"&">> \o urlencode(Tail(pairs)))

\* PluginContext.build_url without the base URL: query is a sequence of
\* <<name, Optional value>>; what Kodi hands back as sys.argv[2] starts at "?"
build_url(query) ==
    LET filtered == SelectSeq(query, LAMBDA kv : kv[2] # None) IN
    IF filtered = <<>> THEN <<>>
    ELSE <<"?">> \o urlencode([i \in 1..Len(filtered) |->
                                 <<filtered[i][1], filtered[i][2][1]>>])

RECURSIVE LStripQ(_)
LStripQ(s) == IF s # <<>> /\ Head(s) = "?" THEN LStripQ(Tail(s)) ELSE s

RECURSIVE SplitOn(_, _)
SplitOn(s, sep) ==
    IF s = <<>> THEN << <<>> >>
    ELSE LET r == SplitOn(Tail(s), sep) IN
         IF Head(s) = sep THEN << <<>> >> \o r
         ELSE << <<Head(s)>> \o Head(r) >> \o Tail(r)

\* the hexadecimal digits, in either case
HexDigits == {HexSeq[i] : i \in 1..16} \cup {"a", "b", "c", "d", "e", "f"}

HexVal(d) ==
    CASE d = "a" -> 10 [] d = "b" -> 11 [] d = "c" -> 12
      [] d = "d" -> 13 [] d = "e" -> 14 [] d = "f" -> 15
      [] OTHER -> (CHOOSE i \in 1..16 : HexSeq[i] = d) - 1

\* the character of the escape %ab of a byte below 80; "other" is one
\* character outside U+0020..U+007E (a control character, a character above
\* U+007F, or the replacement character U+FFFD)
HexChar(a, b) ==
    LET v == 16 * HexVal(a) + HexVal(b) IN
    IF v >= 32 /\ v <= 126 THEN <<Printable[v - 31]>> ELSE <<"other">>

\* the text starts with an escape: a "%" followed by two hexadecimal digits
EscapeAt(s) == Len(s) >= 3 /\ s[1] = "%" /\ s[2] \in HexDigits /\ s[3] \in HexDigits

\* the byte of the escape the text starts with
ByteAt(s) == 16 * HexVal(s[2]) + HexVal(s[3])

\* the length of the utf-8 sequence a lead byte opens: C2..DF open two bytes,
\* E0..EF three, F0..F4 four; 80..C1 and F5..FF open none
Utf8Len(lead) ==
    IF lead >= 194 /\ lead <= 223 THEN 2
    ELSE IF lead >= 224 /\ lead <= 239 THEN 3
    ELSE IF lead >= 240 /\ lead <= 244 THEN 4
    ELSE 1

\* byte b may be the i-th byte (i >= 2) of the sequence the lead byte opens:
\* 80..BF, the second byte narrowed after E0, ED, F0 and F4
Utf8Follows(lead, i, b) ==
    LET lo == IF i = 2 /\ lead = 224 THEN 160 ELSE IF i = 2 /\ lead = 240 THEN 144 ELSE 128
        hi == IF i = 2 /\ lead = 237 THEN 159 ELSE IF i = 2 /\ lead = 244 THEN 143 ELSE 191
    IN b >= lo /\ b <= hi

\* how many escapes at the start of the text continue the sequence of the
\* lead byte from its i-th byte on; a character that is no escape ends it
RECURSIVE Utf8Run(_, _, _)
Utf8Run(lead, i, s) ==
    IF i > Utf8Len(lead) \/ ~EscapeAt(s) THEN 0
    ELSE IF ~Utf8Follows(lead, i, ByteAt(s)) THEN 0
    ELSE 1 + Utf8Run(lead, i + 1, SubSeq(s, 4, Len(s)))

\* urllib.parse.unquote: a "%" followed by two hexadecimal digits is an
\* escape; any other "%" stays as it is and the text after it is read on.
\* The bytes of a run of escapes are decoded as utf-8 with errors="replace":
\* a byte below 80 is its character, a complete sequence is one character
\* above U+007F, and a byte that opens no sequence, or a sequence cut short,
\* is one replacement character for the bytes read so far
RECURSIVE unquote(_)
unquote(s) ==
    IF s = <<>> THEN <<>>
    ELSE IF ~EscapeAt(s) THEN <<Head(s)>> \o unquote(Tail(s))
    ELSE LET rest == SubSeq(s, 4, Len(s)) IN
         IF ByteAt(s) < 128 THEN HexChar(s[2], s[3]) \o unquote(rest)
         ELSE <<"other">>
                \o unquote(SubSeq(rest, 3 * Utf8Run(ByteAt(s), 2, rest) + 1, Len(rest)))

PlusToSpace(s) == [i \in 1..Len(s) |-> IF s[i] = "+" THEN " " ELSE s[i]]

\* one "name=value" field: <<>> when it is dropped, else << <<name, value>> >>
ParseField(field) ==
    LET nv == SplitOn(field, "=")
        value == IF Len(nv) = 1 THEN <<>>
                 ELSE SubSeq(field, Len(nv[1]) + 2, Len(field))
    IN
    IF field = <<>> \/ Len(nv) = 1 \/ value = <<>> THEN <<>>
    ELSE << <<unquote(PlusToSpace(nv[1])), unquote(PlusToSpace(value))>> >>

RECURSIVE ParseFields(_)
ParseFields(fields) ==
    IF fields = <<>> THEN <<>>
    ELSE ParseField(Head(fields)) \o ParseFields(Tail(fields))

parse_qsl(qs) == ParseFields(SplitOn(qs, "&"))

\* dict(pairs).get(name): the last pair of that name wins
RECURSIVE DictGet(_, _)
DictGet(pairs, name) ==
    IF pairs = <<>> THEN None
    ELSE IF pairs[Len(pairs)][1] = name THEN Some(pairs[Len(pairs)][2])
    ELSE DictGet(SubSeq(pairs, 1, Len(pairs) - 1), name)

(***************************************************************************)
(* router.py dispatch and ui/login.py show_login_screen.  The calls of one *)
(* invocation are listed in order.  w gives the invocation's surroundings: *)
(* whether get_backend() raises and what the two input dialogs return.     *)
(* The backend object is a PrimeAPI (prime_api.py lines 504-602), which    *)
(* defines neither is_logged_in nor login nor logout: looking one of them  *)
(* up raises AttributeError.                                               *)
(***************************************************************************)
Call(fn, args) == [fn |-> fn, args |-> args]

EndOfDirectory(succeeded) == Call("endOfDirectory", <<succeeded>>)

Returns(value) == [raised |-> FALSE, exc |-> None, ret |-> value]
Raises(exc) == [raised |-> TRUE, exc |-> Some(exc), ret |-> FALSE]

\* login.py lines 15-41: an empty user name or password ends with False;
\* otherwise line 33 calls backend.login, which PrimeAPI does not have, and
\* `except AuthenticationError` does not catch the AttributeError
show_login_screen(l) ==
    IF l.username = <<>> THEN Returns(FALSE)
    ELSE IF l.password = <<>> THEN Returns(FALSE)
    ELSE Raises("AttributeError")

\* router.py lines 53-91: the handler call the action selects, None when the
\* branch calls none
Routed(params) ==
    LET action == DictGet(params, <<"action">>)
        asin == DictGet(params, <<"asin">>)
    IN
    CASE action = Some(<<"login">>) -> Some(Call("show_login_screen", <<>>))
      [] action = Some(<<"logout">>) -> None
      [] action = Some(<<"list">>) ->
           Some(Call("show_list", <<StrOr(DictGet(params, <<"rail">>), Some(<<>>))[1],
                                    DictGet(params, <<"cursor">>)>>))
      [] action = Some(<<"play">>) ->
           IF asin # None THEN Some(Call("play", <<asin[1]>>)) ELSE None
      [] action = Some(<<"diagnostics">>) -> Some(Call("show_results", <<>>))
      [] action = Some(<<"search">>) ->
           Some(Call("show_search", <<DictGet(params, <<"query">>),
                                      DictGet(params, <<"cursor">>)>>))
      [] action = Some(<<"add_to_watchlist">>) -> None
      [] action = Some(<<"mark_as_watched">>) -> None
      [] OTHER -> Some(Call("show_home", <<>>))

\* router.py lines 35-98.  Line 43 constructs the backend outside the try
\* block, so what get_backend() raises leaves dispatch as it is.  Line 44
\* evaluates backend.is_logged_in() for every action but "login": the
\* AttributeError leaves dispatch before the login gate, the try block and
\* every handler.  For "login" the try block calls show_login_screen (line
\* 54) and, when it returned, line 98 ends the directory.
dispatch(param_string, w) ==
    LET params == parse_qsl(LStripQ(param_string))
        action == DictGet(params, <<"action">>)
        h == Routed(params)
        l == show_login_screen(w.dialog)
    IN
    IF w.construct # None THEN [calls |-> <<>>, exc |-> w.construct, ran |-> None]
    ELSE IF action # Some(<<"login">>)
    THEN [calls |-> <<>>, exc |-> Some("AttributeError"), ran |-> None]
    ELSE IF l.raised
    THEN [calls |-> <<h[1]>>, exc |-> l.exc, ran |-> h]
    ELSE [calls |-> <<h[1], EndOfDirectory(TRUE)>>, exc |-> None, ran |-> h]

Dialogs == [username : {<<>>, <<"u">>}, password : {<<>>, <<"p">>}]

\* get_backend() returns, or PrimeAPI() raises PreflightError (prime_api.py
\* line 511) or BackendError (line 525)
Worlds ==
    [construct : {None, Some("PreflightError"), Some("BackendError")},
     dialog : Dialogs]

(***************************************************************************)
(* ui/listing.py show_list and show_search, after get_backend() returned.  *)
(***************************************************************************)
\* listing.py line 112
SEARCH_CONTENT_TTL == 60

\* listing.py line 186: max(30, cache_ttl)
MIN_LIST_TTL == 30

ListTtl(cache_ttl) == IF cache_ttl > MIN_LIST_TTL THEN cache_ttl ELSE MIN_LIST_TTL

\* lines 186-192 and 235-240: the facade call the handler makes
show_list_call(rail_id, cursor, settings) ==
    get_rail_call(rail_id, cursor, ListTtl(settings.cache_ttl), settings.use_cache, FALSE)

show_search_call(query, cursor, settings) ==
    search_call(query, cursor, SEARCH_CONTENT_TTL, settings.use_cache)

\* lines 202-214 and 250-262: the "more" link, None when the page has none
MoreLink(handler, arg, data) ==
    IF data.items = <<>> \/ ~CursorTruthy(data.cursor) THEN None
    ELSE IF handler = "show_list"
    THEN Some(build_url(<< <<(<<"action">>), Some(<<"list">>)>>,
                           <<(<<"rail">>), Some(arg)>>,
                           <<(<<"cursor">>), data.cursor>> >>))
    ELSE Some(build_url(<< <<(<<"action">>), Some(<<"search">>)>>,
                           <<(<<"query">>), Some(arg)>>,
                           <<(<<"cursor">>), data.cursor>> >>))

(***************************************************************************)
(* State machine of paging: show_list or show_search lists a page, step by *)
(* step as the facade call goes, while the clock moves; Kodi then invokes  *)
(* the plug-in with the page's "more" link, which goes through dispatch.   *)
(***************************************************************************)
\* the instants the clock is looked at: past the search TTL and the lowest
\* list TTL, and past the default list TTL
PageTimes == {61, 301}

\* cursors made of the characters a query string reserves
CursorTexts ==
    {<<"&", "=">>, <<"%", "2", "6">>, <<"c", "+", " ">>}

\* what the strategy answers: the RPC strategy's items with "cursor" and
\* "next", or the payload of the direct strategy's callable, among them a
\* RailData whose cursor is a number, which _normalize hands on as it is
PageAnswers ==
    {BackendFails, BackendAnswers(<<>>, RawStr(<<"c">>), None),
     BackendAnswers(<<GoodA>>, None, None),
     BackendAnswers(<<GoodA>>, RawStr(<<>>), RawStr(<<"n">>)),
     BackendAnswers(<<GoodA>>, RawInt(<<"7">>), None),
     DirectReturns(PayRailData(<<GoodA>>, Some(PyIntCursor(<<"7">>)))),
     DirectReturns(PayRailData(<<GoodA>>, Some(PyIntCursor(<<"0">>))))}
        \cup {BackendAnswers(<<GoodA>>, RawStr(x), None) : x \in CursorTexts}

PageKeys == {RailKey(<<"a">>, None), SearchKey(<<"q">>, None)}

Settings == [use_cache : BOOLEAN, cache_ttl : {0, 300}]

Closed == [pc |-> "closed"]

InitPage ==
    /\ files = [k \in PageKeys |-> Absent]
    /\ now = 0
    /\ last = [op |-> "init"]
    /\ env \in Settings
    /\ sel = Closed

\* the handler is called with no cursor (tests/test_listing.py, and what a
\* home entry would lead to)
Begin(handler, arg, c) ==
    /\ sel.pc = "closed"
    /\ sel' = [pc |-> "listing", handler |-> handler, arg |-> arg, call |-> c]
    /\ UNCHANGED <<files, now, last, env>>

OpenList == Begin("show_list", <<"a">>, show_list_call(<<"a">>, None, env))

OpenSearch == Begin("show_search", <<"q">>, show_search_call(<<"q">>, None, env))

\* what the handler leaves when its facade call has ended: the page with
\* its link, or the BackendError of the call, which the handler hands on
Page(handler, arg, c) ==
    [pc |-> "open", handler |-> handler, arg |-> arg, raised |-> c.raised,
     returned |-> c.data.cursor,
     link |-> IF c.raised THEN None ELSE MoreLink(handler, arg, c.data)]

\* the next step of the facade call
ListStep ==
    /\ sel.pc = "listing"
    /\ \E answer \in PageAnswers :
          \E r \in {CallStep(sel.call, files, now, answer, NoListing)} :
             /\ files' = r.files
             /\ sel' = IF Done(r.c) THEN Page(sel.handler, sel.arg, r.c)
                       ELSE [sel EXCEPT !.call = r.c]
    /\ UNCHANGED <<now, last, env>>

Elapse ==
    /\ \E t \in PageTimes : t > now /\ now' = t
    /\ UNCHANGED <<files, last, env, sel>>

\* Kodi invokes the plug-in with the link of the page: dispatch runs on the
\* query string, in a process of its own
FollowLink ==
    /\ sel.pc = "open"
    /\ sel.link # None
    /\ \E w \in Worlds :
          \E d \in {dispatch(sel.link[1], w)} :
             sel' = [pc |-> "followed", handler |-> sel.handler, prev |-> sel.returned,
                     params |-> parse_qsl(LStripQ(sel.link[1])),
                     calls |-> d.calls, exc |-> d.exc,
                     reached |-> IF d.ran = None THEN None
                                 ELSE DictGet(parse_qsl(LStripQ(sel.link[1])),
                                              <<"cursor">>),
                     fetched |-> d.ran # None]
    /\ UNCHANGED <<files, now, last, env>>

\* the user goes back to where the list or the search is opened
Back ==
    /\ sel.pc \in {"open", "followed"}
    /\ sel' = Closed
    /\ UNCHANGED <<files, now, last, env>>

NextPage == OpenList \/ OpenSearch \/ ListStep \/ Elapse \/ FollowLink \/ Back

SpecPage == InitPage /\ [][NextPage]_vars

(***************************************************************************)
(* Claim about pagination (SpecPage).                                      *)
(***************************************************************************)
\* C23: when the next-page link of a page is followed, the handler that
\* made the link runs and the cursor the strategy is called with is exactly
\* the cursor the fetch behind the link returned.
C23_CursorRoundTrip ==
    (sel.pc = "followed" /\ sel.exc \notin {Some("PreflightError"), Some("BackendError")})
       => /\ sel.fetched
          /\ sel.reached = sel.prev

(***************************************************************************)
(* State machine of one plug-in invocation through the router.             *)
(***************************************************************************)
Asin == <<"B">>

RouteQueries ==
    { <<>>,
      << <<(<<"action">>), Some(<<"list">>)>>, <<(<<"rail">>), Some(<<"a">>)>>,
         <<(<<"cursor">>), Some(<<"c">>)>> >>,
      << <<(<<"action">>), Some(<<"list">>)>> >>,
      << <<(<<"action">>), Some(<<"play">>)>>, <<(<<"asin">>), Some(Asin)>> >>,
      << <<(<<"action">>), Some(<<"play">>)>> >>,
      << <<(<<"action">>), Some(<<"diagnostics">>)>> >>,
      << <<(<<"action">>), Some(<<"search">>)>>, <<(<<"query">>), Some(<<"q">>)>> >>,
      << <<(<<"action">>), Some(<<"login">>)>> >>,
      << <<(<<"action">>), Some(<<"logout">>)>> >>,
      << <<(<<"action">>), Some(<<"add_to_watchlist">>)>>, <<(<<"asin">>), Some(Asin)>> >>,
      << <<(<<"action">>), Some(<<"mark_as_watched">>)>>, <<(<<"asin">>), Some(Asin)>>,
         <<(<<"status">>), Some(<<"true">>)>> >>,
      << <<(<<"action">>), Some(<<"bogus">>)>> >> }

InitRoute ==
    /\ files = [k \in CacheKeys |-> Absent]
    /\ now = 0
    /\ last = [op |-> "init"]
    /\ env = NoEnv
    /\ sel = [pc |-> "start"]

\* one invocation; no branch that reads or writes the cache is reached
Dispatch ==
    /\ sel.pc = "start"
    /\ \E query \in RouteQueries, w \in Worlds :
          \E r \in {dispatch(build_url(query), w)} :
             sel' = [pc |-> "done", params |-> parse_qsl(LStripQ(build_url(query))),
                     w |-> w, calls |-> r.calls, exc |-> r.exc, ran |-> r.ran]
    /\ UNCHANGED <<files, now, last, env>>

NextRoute == Dispatch

SpecRoute == InitRoute /\ [][NextRoute]_vars

(***************************************************************************)
(* Claims about the router (SpecRoute).                                    *)
(***************************************************************************)
IsEnd(c) == c.fn = "endOfDirectory"
IsPreflightShown(c) == c.fn = "show_preflight_error"

Matching(params) ==
    LET action == DictGet(params, <<"action">>) IN
    CASE action = Some(<<"list">>) /\ DictGet(params, <<"rail">>) # None -> Some("show_list")
      [] action = Some(<<"search">>) /\ DictGet(params, <<"query">>) # None ->
           Some("show_search")
      [] action = Some(<<"diagnostics">>) -> Some("show_results")
      [] action = Some(<<"play">>) /\ DictGet(params, <<"asin">>) # None -> Some("play")
      [] action = None -> Some("show_home")
      [] OTHER -> None

\* C25: when the backend is available, dispatch calls the matching handler
\* once and then endOfDirectory once, for list, search, diagnostics, play
\* with an asin and the default action.
C25_HandlerThenEnd ==
    (sel.pc = "done" /\ sel.w.construct = None /\ Matching(sel.params) # None)
      => /\ Len(sel.calls) = 2
         /\ sel.calls[1].fn = Matching(sel.params)[1]
         /\ sel.calls[2] = EndOfDirectory(TRUE)

\* C26: with no session logged in and the login screen cancelled, an action
\* other than login invokes no handler and ends the directory once with
\* succeeded=False.
C26_LoginGate ==
    (sel.pc = "done" /\ sel.w.construct = None
       /\ DictGet(sel.params, <<"action">>) # Some(<<"login">>)
       /\ sel.w.dialog.username = <<>>)
      => /\ sel.ran = None
         /\ sel.calls = <<Call("show_login_screen", <<>>), EndOfDirectory(FALSE)>>
         /\ sel.exc = None

(***************************************************************************)
(* Cache under concurrent callers (cache.py lines 68-135).  Each operation *)
(* is the sequence of its file accesses and of its lock acquisitions; an   *)
(* access takes time, so it has a beginning and an end, and busy says that *)
(* a thread is between the two.  The directory holds one file.  The        *)
(* steps of get: "exists" (line 70), "acquire", "read" (74-75), for a file *)
(* that does not parse "x_exists" / "x_delete" (77) and "x_release",       *)
(* else "release", then outside the lock "test" (79-80, with the clock     *)
(* read there) and for an expired entry "t_exists" / "t_delete" (81).      *)
(* The steps of set: the clock read of line 87 when it starts, "acquire",  *)
(* "write" (89-90, which begins by truncating the file), "release".        *)
(***************************************************************************)
LockKey == RailKey(<<"a">>, None)

CacheOps == {"get", "set", "delete", "clear_prefix", "clear_all"}

Idle ==
    [op |-> "none", at |-> "idle", busy |-> FALSE, ttl |-> None, seen |-> Absent,
     t |-> 0]

\* the first step of an operation
First(op) ==
    CASE op = "get" -> "exists"
      [] op = "set" -> "acquire"
      [] op = "delete" -> "exists"
      [] op = "clear_prefix" -> "listdir"
      [] OTHER -> "base_exists"

IsAccess(at) == at \notin {"idle", "acquire", "release", "x_release", "test"}

\* the steps that run inside "with self._lock" (lines 71-78 and 88-90)
UnderLock(th) ==
    \/ th.op = "get" /\ th.at \in {"read", "x_exists", "x_delete", "x_release", "release"}
    \/ th.op = "set" /\ th.at \in {"write", "release"}

\* the step that follows an access, given the file as the access found it
AfterAccess(th, doc) ==
    CASE th.op = "get" /\ th.at = "exists" ->
           IF doc.st = "absent" THEN "idle" ELSE "acquire"
      [] th.op = "get" /\ th.at = "read" ->
           IF doc.st \in {"absent", "garbage"} THEN "x_exists" ELSE "release"
      [] th.op = "get" /\ th.at = "x_exists" ->
           IF doc.st = "absent" THEN "x_release" ELSE "x_delete"
      [] th.op = "get" /\ th.at = "x_delete" -> "x_release"
      [] th.op = "get" /\ th.at = "t_exists" ->
           IF doc.st = "absent" THEN "idle" ELSE "t_delete"
      [] th.op = "set" /\ th.at = "write" -> "release"
      [] th.op \in {"delete", "clear_prefix"} /\ th.at = "exists" ->
           IF doc.st = "absent" THEN "idle" ELSE "delete"
      [] th.op = "clear_prefix" /\ th.at = "listdir" ->
           IF doc.st = "absent" THEN "idle" ELSE "read"
      [] th.op = "clear_prefix" /\ th.at = "read" ->
           IF StoredKey(doc) # None /\ StartsWith(StoredKey(doc)[1], <<"rail">>)
           THEN "exists" ELSE "idle"
      [] th.op = "clear_all" /\ th.at = "base_exists" -> "listdir"
      [] th.op = "clear_all" /\ th.at = "listdir" ->
           IF doc.st = "absent" THEN "idle" ELSE "delete"
      [] OTHER -> "idle"

\* the step that follows the release of the lock: get goes on to its TTL
\* test unless it returns at line 78, set returns
AfterRelease(th) ==
    IF th.op = "get" /\ th.at = "release" THEN "test" ELSE "idle"

\* get lines 79-83 at clock value t, on the payload read under the lock: a
\* payload that is no object raises AttributeError, an expired one is
\* deleted, any other is returned
AfterTest(th, t) ==
    IF th.seen.st = "dict" /\ Expired(th.seen.timestamp, th.ttl, t)
    THEN "t_exists" ELSE "idle"

\* what the beginning of an access leaves in the file: open(path, "w") of
\* line 89 creates or truncates it, and until json.dump has ended the file
\* holds no complete document
AccessBegins(th, doc) ==
    IF th.at = "write" THEN Garbage ELSE doc

\* what the end of an access can leave in the file.  The write completes
\* the payload built at lines 86-87, with the clock value read then, unless
\* the file was unlinked under it.  A delete removes the file; while
\* another thread holds the file open for writing the platform decides
\* whether the delete removes it or fails and leaves it.
AccessEffect(th, doc, open) ==
    IF th.at = "write"
    THEN IF doc.st = "absent" THEN {Absent}
         ELSE {Entry(th.t, LockKey, PyDict(<<ItemA>>, None))}
    ELSE IF th.at \in {"delete", "x_delete", "t_delete"}
    THEN IF open THEN {Absent, doc} ELSE {Absent}
    ELSE {doc}

InitLock ==
    /\ files \in [{LockKey} -> {Absent, Garbage, NonDict,
                                Entry(0, LockKey, PyDict(<<ItemA>>, None))}]
    /\ now = 0
    /\ last = [op |-> "init"]
    /\ env = NoEnv
    /\ sel = [th |-> [p \in Threads |-> Idle], lock |-> None]

StartOp(p) ==
    /\ sel.th[p].at = "idle"
    /\ \E op \in CacheOps, ttl \in {None, Some(0)} :
          sel' = [sel EXCEPT !.th[p] = [Idle EXCEPT !.op = op, !.at = First(op),
                                                   !.ttl = ttl,
                                                   !.t = IF op = "set" THEN now ELSE 0]]
    /\ UNCHANGED <<files, now, last, env>>

AcquireLock(p) ==
    /\ sel.th[p].at = "acquire"
    /\ sel.lock = None
    /\ sel' = [sel EXCEPT !.lock = Some(p),
                          !.th[p].at = IF sel.th[p].op = "get" THEN "read" ELSE "write"]
    /\ UNCHANGED <<files, now, last, env>>

ReleaseLock(p) ==
    /\ sel.th[p].at \in {"release", "x_release"}
    /\ sel' = [sel EXCEPT !.lock = None, !.th[p].at = AfterRelease(sel.th[p])]
    /\ UNCHANGED <<files, now, last, env>>

\* get reads the clock and tests the entry it read (lines 79-80)
TtlTest(p) ==
    /\ sel.th[p].at = "test"
    /\ sel' = [sel EXCEPT !.th[p].at = AfterTest(sel.th[p], now)]
    /\ UNCHANGED <<files, now, last, env>>

BeginAccess(p) ==
    /\ IsAccess(sel.th[p].at)
    /\ ~sel.th[p].busy
    /\ sel' = [sel EXCEPT !.th[p].busy = TRUE]
    /\ files' = [files EXCEPT ![LockKey] = AccessBegins(sel.th[p], @)]
    /\ UNCHANGED <<now, last, env>>

\* some other thread is inside the write of set
OpenForWriting(p) ==
    \E q \in Threads \ {p} : sel.th[q].at = "write" /\ sel.th[q].busy

EndAccess(p) ==
    /\ sel.th[p].busy
    /\ \E doc \in AccessEffect(sel.th[p], files[LockKey], OpenForWriting(p)) :
          files' = [files EXCEPT ![LockKey] = doc]
    /\ sel' = [sel EXCEPT !.th[p].busy = FALSE,
                          !.th[p].at = AfterAccess(sel.th[p], files[LockKey]),
                          !.th[p].seen = IF sel.th[p].at = "read" THEN files[LockKey]
                                         ELSE @]
    /\ UNCHANGED <<now, last, env>>

NextLock ==
    \/ \E p \in Threads :
          \/ StartOp(p) \/ AcquireLock(p) \/ ReleaseLock(p) \/ TtlTest(p)
          \/ BeginAccess(p) \/ EndAccess(p)
    \/ Tick

SpecLock == InitLock /\ [][NextLock]_vars

(***************************************************************************)
(* Claim about the cache lock (SpecLock).                                  *)
(***************************************************************************)
\* C27: no two threads are inside a file access of a Cache operation (an
\* existence check, a read, a write, a delete, a listing) at the same time.
C27_MutualExclusion ==
    \A p, q \in Threads : (p # q) => ~(sel.th[p].busy /\ sel.th[q].busy)

\* what the lock does give: the accesses made under it never overlap
LockedAccessesExclusive ==
    \A p, q \in Threads :
       (p # q /\ sel.th[p].busy /\ sel.th[q].busy)
          => ~(UnderLock(sel.th[p]) /\ UnderLock(sel.th[q]))

(***************************************************************************)
(* The indirect strategy's envelope decoding (backend/prime_api.py lines   *)
(* 344-369, 400-427).  A JSON value is null, a boolean, a number, a        *)
(* string, a list or an object; an object is a function from its keys.     *)
(* A JSON text is a sequence of tokens.                                    *)
(***************************************************************************)
JNull == [ty |-> "null"]
JBool(b) == [ty |-> "bool", b |-> b]
JNum(digits) == [ty |-> "num", v |-> digits]
JStr(s) == [ty |-> "str", v |-> s]
JList(items) == [ty |-> "list", items |-> items]
JDict(f) == [ty |-> "dict", f |-> f]
EmptyDict == JDict([k \in {} |-> JNull])

\* bool(v)
JTruthy(v) ==
    CASE v.ty = "null" -> FALSE
      [] v.ty = "bool" -> v.b
      [] v.ty = "num" -> v.v # <<"0">>
      [] v.ty = "str" -> v.v # <<>>
      [] v.ty = "list" -> v.items # <<>>
      [] OTHER -> DOMAIN v.f # {}

\* Python's `a or b`
JOr(a, b) == IF JTruthy(a) THEN a ELSE b

\* dict.get(name)
JGet(d, name) == IF name \in DOMAIN d.f THEN d.f[name] ELSE JNull

\* json.loads of a text: the value, or a JSONDecodeError
json_loads(s) ==
    CASE s = <<"null">> -> [ok |-> TRUE, v |-> JNull]
      [] s = <<"true">> -> [ok |-> TRUE, v |-> JBool(TRUE)]
      [] s = <<"7">> -> [ok |-> TRUE, v |-> JNum(<<"7">>)]
      [] s = <<"[", "]">> -> [ok |-> TRUE, v |-> JList(<<>>)]
      [] s = <<"{", "}">> -> [ok |-> TRUE, v |-> EmptyDict]
      [] s = <<"{", "items", "}">> ->
           [ok |-> TRUE, v |-> JDict("items" :> JList(<<GoodA>>))]
      [] s = <<"{", "url", "}">> ->
           [ok |-> TRUE, v |-> JDict("url" :> JStr(<<"u">>))]
      [] s = <<"'", "x", "'">> -> [ok |-> TRUE, v |-> JStr(<<"x">>)]
      [] OTHER -> [ok |-> FALSE, v |-> JNull]

\* what xbmc.executeJSONRPC returns: a text that is not JSON, or a document
NotJson == [json |-> FALSE, data |-> JNull]
Envelope(data) == [json |-> TRUE, data |-> data]

Executed(raised, ret) == [raised |-> raised, ret |-> ret]

\* lines 361-364 with a text that does not decode kept as a string
SecondDecode_literal(raw) ==
    LET d == json_loads(raw.v) IN
    IF d.ok THEN Executed(None, d.v) ELSE Executed(None, raw)

\* lines 361-364
SecondDecode(raw) ==
    LET d == json_loads(raw.v) IN
    IF d.ok THEN Executed(None, d.v) ELSE Executed(Some("BackendError"), JNull)

\* _IndirectBackendStrategy._execute, lines 353-367
_execute(resp) ==
    IF ~resp.json THEN Executed(Some("BackendError"), JNull)
    ELSE IF resp.data.ty # "dict" THEN Executed(Some("AttributeError"), JNull)
    ELSE LET result == JOr(JGet(resp.data, "result"), EmptyDict) IN
         IF result.ty # "dict" THEN Executed(Some("BackendError"), JNull)
         ELSE LET raw == JOr(JGet(result, "value"),
                             JOr(JGet(result, "data"), JGet(result, "json")))
              IN IF raw.ty = "str" THEN SecondDecode(raw) ELSE Executed(None, result)

\* a JSON cursor as a raw cursor
RawOfJson(v) ==
    CASE v.ty = "null" -> None
      [] v.ty = "str" -> RawStr(v.v)
      [] v.ty = "num" -> RawInt(v.v)
      [] OTHER -> RawStr(<<"repr">>)

\* _IndirectBackendStrategy.get_rail and .search, lines 404-408 and 414-418
Indirect_fetch(resp) ==
    LET x == _execute(resp)
        items == JOr(JGet(x.ret, "items"), JOr(JGet(x.ret, "videos"), JList(<<>>)))
        cursor == JOr(JGet(x.ret, "cursor"), JGet(x.ret, "next"))
    IN
    IF x.raised # None THEN [raised |-> x.raised, data |-> RailData(<<>>, None)]
    ELSE IF x.ret.ty # "dict"
    THEN [raised |-> Some("AttributeError"), data |-> RailData(<<>>, None)]
    ELSE IF items.ty \in {"num", "bool"}
    THEN [raised |-> Some("TypeError"), data |-> RailData(<<>>, None)]
    ELSE [raised |-> None,
          data |-> RailData(IF items.ty = "list" THEN NormalizeItems(items.items)
                            ELSE <<>>,
                            _safe_str(RawOfJson(cursor)))]

\* _IndirectBackendStrategy.get_playable, lines 420-427
Indirect_get_playable(resp) ==
    LET x == _execute(resp) IN
    IF x.raised # None THEN [raised |-> x.raised, data |-> JNull]
    ELSE IF x.ret.ty # "dict" THEN [raised |-> Some("BackendError"), data |-> JNull]
    ELSE LET playback == JOr(JGet(x.ret, "playback"), x.ret) IN
         IF playback.ty # "dict" THEN [raised |-> Some("BackendError"), data |-> JNull]
         ELSE [raised |-> None, data |-> playback]

(***************************************************************************)
(* State machine of calls on the indirect strategy.                        *)
(***************************************************************************)
JsonTexts ==
    {<<"null">>, <<"true">>, <<"7">>, <<"[", "]">>, <<"{", "}">>, <<"{", "items", "}">>,
     <<"{", "url", "}">>, <<"'", "x", "'">>, <<"x">>, <<"{">>}

RpcResults ==
    {JNull, JStr(<<"true">>), JList(<<>>), JList(<<GoodA>>), JNum(<<"7">>), EmptyDict,
     JDict("items" :> JList(<<GoodA>>)), JDict("items" :> JNum(<<"7">>)),
     JDict("url" :> JStr(<<"u">>)), JDict("playback" :> JStr(<<"u">>)),
     JDict("value" :> JDict("url" :> JStr(<<"u">>)))}
        \cup {JDict(k :> JStr(t)) : k \in {"value", "data", "json"}, t \in JsonTexts}

RpcError == JDict("message" :> JStr(<<"x">>))

Responses ==
    {NotJson, Envelope(JNull), Envelope(JList(<<>>)), Envelope(JStr(<<"x">>)),
     Envelope(JNum(<<"7">>)), Envelope(EmptyDict), Envelope(JDict("error" :> RpcError))}
        \cup {Envelope(JDict("result" :> r)) : r \in RpcResults}
        \cup {Envelope(JDict("result" :> r @@ "error" :> RpcError)) : r \in RpcResults}

InitRpc ==
    /\ files = [k \in CacheKeys |-> Absent]
    /\ now = 0
    /\ last = [op |-> "init"]
    /\ env \in [installed : SUBSET {AmazonX}]
    /\ sel = [pc |-> "start"]

\* _IndirectBackendStrategy(backend_id), lines 340-342
RpcConstruct ==
    /\ sel.pc = "start"
    /\ sel' = [pc |-> IF Indirect_init(env, AmazonX) THEN "bound" ELSE "failed"]
    /\ UNCHANGED <<files, now, last, env>>

RpcFetch ==
    /\ sel.pc = "bound"
    /\ \E op \in {"get_rail", "search"}, resp \in Responses :
          \E r \in {Indirect_fetch(resp)} :
             last' = [op |-> op, resp |-> resp, x |-> _execute(resp),
                      raised |-> r.raised, data |-> r.data]
    /\ UNCHANGED <<files, now, env, sel>>

RpcPlay ==
    /\ sel.pc = "bound"
    /\ \E resp \in Responses :
          \E r \in {Indirect_get_playable(resp)} :
             last' = [op |-> "get_playable", resp |-> resp, x |-> _execute(resp),
                      raised |-> r.raised, data |-> r.data]
    /\ UNCHANGED <<files, now, env, sel>>

NextRpc == RpcConstruct \/ RpcFetch \/ RpcPlay

SpecRpc == InitRpc /\ [][NextRpc]_vars

(***************************************************************************)
(* Claims about the indirect strategy (SpecRpc).                           *)
(***************************************************************************)
Called == last.op \in {"get_rail", "search", "get_playable"}

HasErrorField == last.resp.json /\ last.resp.data.ty = "dict"
                    /\ "error" \in DOMAIN last.resp.data.f

\* C28: a response envelope with an "error" field makes the operation raise
\* BackendError.
C28_ErrorFieldRaises ==
    (Called /\ HasErrorField) => last.raised = Some("BackendError")

\* the string the envelope carries under "value", "data" or "json"
EnvelopeString ==
    LET result == JOr(JGet(last.resp.data, "result"), EmptyDict)
        raw == JOr(JGet(result, "value"), JOr(JGet(result, "data"), JGet(result, "json")))
    IN IF last.resp.json /\ last.resp.data.ty = "dict" /\ result.ty = "dict"
            /\ raw.ty = "str"
       THEN Some(raw) ELSE None

\* C29: when the envelope's value is a string, _execute returns its JSON
\* decoding, and the string itself when it does not decode; it does not raise.
C29_SecondDecodeOrLiteral ==
    (Called /\ EnvelopeString # None)
       => /\ last.x.raised = None
          /\ last.x.ret = IF json_loads(EnvelopeString[1].v).ok
                          THEN json_loads(EnvelopeString[1].v).v
                          ELSE EnvelopeString[1]

\* C30: construction succeeds whenever the add-on exists, and get_rail,
\* search and get_playable raise nothing but BackendError, whatever the
\* envelope.
C30_OnlyBackendError ==
    /\ (sel.pc # "start" /\ AmazonX \in env.installed) => sel.pc = "bound"
    /\ Called => last.raised \in {None, Some("BackendError")}

(***************************************************************************)
(* The direct strategy as an object (backend/prime_api.py lines 131-247):  *)
(* what _prepare binds, and the check every content call starts with.      *)
(***************************************************************************)
GroupOrder == <<"home", "rail", "search", "play">>

\* lines 170-174: the groups resolved before the loop meets a missing one
RECURSIVE ResolvedPrefix(_, _)
ResolvedPrefix(funcs, i) ==
    IF i > Len(GroupOrder) \/ GroupOrder[i] \notin funcs THEN {}
    ELSE {GroupOrder[i]} \cup ResolvedPrefix(funcs, i + 1)

\* lines 185-204: the first candidate class that instantiates and has every
\* group, 0 when there is none
RECURSIVE FirstClass(_, _)
FirstClass(classes, i) ==
    IF i > Len(classes) THEN 0
    ELSE IF classes[i].instantiates /\ _has_methods(classes[i]) THEN i
    ELSE FirstClass(classes, i + 1)

\* _extract_api with a rail and a play accessor enough to bind, the
\* callables bound being those the module or the instance has
BoundBy_rail_and_play(module) ==
    IF {"rail", "play"} \subseteq module.funcs
    THEN [api |-> Some("module"), class |-> 0, callables |-> module.funcs]
    ELSE IF \E i \in 1..Len(module.classes) :
               module.classes[i].instantiates
                  /\ {"rail", "play"} \subseteq module.classes[i].methods
    THEN LET i == CHOOSE i \in 1..Len(module.classes) :
                     /\ module.classes[i].instantiates
                     /\ {"rail", "play"} \subseteq module.classes[i].methods
                     /\ \A j \in 1..(i - 1) :
                           ~(module.classes[j].instantiates
                               /\ {"rail", "play"} \subseteq module.classes[j].methods)
         IN [api |-> Some("instance"), class |-> i,
             callables |-> module.classes[i].methods]
    ELSE [api |-> None, class |-> 0, callables |-> {}]

\* _extract_api, lines 161-205: what is bound and which callables are set
BoundBy(module) ==
    IF ResolvedPrefix(module.funcs, 1) = Groups
    THEN [api |-> Some("module"), class |-> 0, callables |-> Groups]
    ELSE IF FirstClass(module.classes, 1) # 0
    THEN [api |-> Some("instance"), class |-> FirstClass(module.classes, 1),
          callables |-> Groups \cap module.classes[FirstClass(module.classes, 1)].methods]
    ELSE [api |-> None, class |-> 0, callables |-> {}]

\* _prepare, lines 143-159: the first module in MODULE_CANDIDATES order that
\* imports and yields an api
RECURSIVE _prepare_from(_, _)
_prepare_from(e, i) ==
    IF i > Len(e.mods)
    THEN [raised |-> TRUE, module |-> 0, api |-> None, class |-> 0, callables |-> {}]
    ELSE LET b == BoundBy(e.mods[i]) IN
         IF e.mods[i].imports /\ b.api # None
         THEN [raised |-> FALSE, module |-> i, api |-> b.api, class |-> b.class,
               callables |-> b.callables]
         ELSE _prepare_from(e, i + 1)

_prepare(e, backend_id) ==
    IF backend_id \notin e.installed
    THEN [raised |-> TRUE, module |-> 0, api |-> None, class |-> 0, callables |-> {}]
    ELSE _prepare_from(e, 1)

\* _ensure_prepared, lines 245-247: TRUE when it raises
_ensure_prepared(callables) == ~(Groups \subseteq callables)

(***************************************************************************)
(* State machine of a direct strategy: construction, then content calls.   *)
(***************************************************************************)
RailAndPlay == Module(TRUE, {"rail", "play"}, <<>>)
ClassRailAndPlay == Module(TRUE, {}, <<Class(TRUE, {"home", "rail", "play"})>>)

DirectModuleKinds == ModuleKinds \cup {RailAndPlay, ClassRailAndPlay}

InitDirect ==
    /\ files = [k \in CacheKeys |-> Absent]
    /\ now = 0
    /\ last = [op |-> "init"]
    /\ env \in [installed : SUBSET {AmazonX},
                 mods : [1..NumModules -> DirectModuleKinds]]
    /\ sel = [pc |-> "start"]

DirectConstruct ==
    /\ sel.pc = "start"
    /\ \E r \in {_prepare(env, AmazonX)} :
          sel' = [pc |-> IF r.raised THEN "failed" ELSE "bound", module |-> r.module,
                  api |-> r.api, class |-> r.class, callables |-> r.callables]
    /\ UNCHANGED <<files, now, last, env>>

\* get_rail, search, get_playable up to their call of the bound callable
DirectCall ==
    /\ sel.pc = "bound"
    /\ \E op \in {"get_rail", "search", "get_playable"} :
          last' = [op |-> op, incomplete |-> _ensure_prepared(sel.callables)]
    /\ UNCHANGED <<files, now, env, sel>>

NextDirect == DirectConstruct \/ DirectCall

SpecDirect == InitDirect /\ [][NextDirect]_vars

(***************************************************************************)
(* Claims about the direct strategy (SpecDirect).                          *)
(***************************************************************************)
\* a module that imports and has, at module level or on an instantiable
\* candidate class, a rail and a play accessor
MeetsMinimum(module) ==
    /\ module.imports
    /\ \/ {"rail", "play"} \subseteq module.funcs
       \/ \E i \in 1..Len(module.classes) :
             module.classes[i].instantiates
                /\ {"rail", "play"} \subseteq module.classes[i].methods

\* C31: construction binds the first module in candidate order that has a
\* rail and a play accessor, whether or not it has a search accessor.
C31_RailAndPlaySuffice ==
    (sel.pc # "start" /\ AmazonX \in env.installed
        /\ \E i \in 1..NumModules : MeetsMinimum(env.mods[i]))
      => /\ sel.pc = "bound"
         /\ MeetsMinimum(env.mods[sel.module])
         /\ \A j \in 1..(sel.module - 1) : ~MeetsMinimum(env.mods[j])

\* C32: once construction succeeded the four callables are bound, and no
\* later get_rail, search or get_playable finds the binding incomplete.
C32_BoundStaysBound ==
    /\ sel.pc = "bound" => sel.callables = Groups
    /\ (sel.pc = "bound" /\ last.op \in {"get_rail", "search", "get_playable"})
         => ~last.incomplete

\* a class-based binding found in the second module, then called
C32_Witness ==
    /\ sel.pc = "bound"
    /\ sel.module = 2
    /\ sel.api = Some("instance")
    /\ sel.class = 2
    /\ env.mods[1] = FuncsNoSearch
    /\ last.op = "search"
    /\ ~last.incomplete

(***************************************************************************)
(* Field coalescing in _normalize_video (backend/prime_api.py lines        *)
(* 438-443), on raw items given as JSON objects.                           *)
(***************************************************************************)
ID_KEYS == <<"asin", "id", "contentId", "content_id">>
TITLE_KEYS == <<"title", "name">>

\* item.get(k1) or item.get(k2) or ... : the last operand when none is true
RECURSIVE OrChain(_, _)
OrChain(item, keys) ==
    IF Len(keys) = 1 THEN JGet(item, keys[1])
    ELSE JOr(JGet(item, keys[1]), OrChain(item, Tail(keys)))

\* lines 439-443, 455-456: None when the item is dropped, else its id and title
NormalizedIdTitle(item) ==
    LET asin == OrChain(item, ID_KEYS)
        title == OrChain(item, TITLE_KEYS)
    IN IF item.ty # "dict" \/ ~JTruthy(asin) \/ ~JTruthy(title) THEN None
       ELSE Some([asin |-> asin, title |-> title])

\* the value of the first key, in order, that is present and not null; null
\* when there is none
RECURSIVE FirstNonNull(_, _)
FirstNonNull(item, keys) ==
    IF keys = <<>> THEN JNull
    ELSE IF JGet(item, keys[1]) # JNull THEN JGet(item, keys[1])
    ELSE FirstNonNull(item, Tail(keys))

(***************************************************************************)
(* State machine of normalising one raw item.                              *)
(***************************************************************************)
Missing == [ty |-> "missing"]

\* the object holding the keys whose value is given
ItemOf(vals) ==
    JDict([k \in {k \in DOMAIN vals : vals[k] # Missing} |-> vals[k]])

NormItems ==
    {ItemOf([asin |-> a, id |-> i, contentId |-> c, content_id |-> d,
             title |-> t, name |-> n]) :
        a \in {Missing, JNull, JStr(<<>>), JStr(<<"A">>), JNum(<<"0">>)},
        i \in {Missing, JNull, JStr(<<"B">>)},
        c \in {Missing, JStr(<<"C">>)},
        d \in {Missing, JStr(<<"D">>)},
        t \in {Missing, JStr(<<>>), JStr(<<"T">>)},
        n \in {Missing, JStr(<<"N">>)}}

InitNorm ==
    /\ files = [k \in CacheKeys |-> Absent]
    /\ now = 0
    /\ last = [op |-> "init"]
    /\ env = NoEnv
    /\ sel = NoEnv

NormalizeOne ==
    /\ \E item \in NormItems :
          last' = [op |-> "_normalize_video", item |-> item,
                   out |-> NormalizedIdTitle(item)]
    /\ UNCHANGED <<files, now, env, sel>>

NextNorm == NormalizeOne

SpecNorm == InitNorm /\ [][NextNorm]_vars

(***************************************************************************)
(* Claim about the normaliser (SpecNorm).                                  *)
(***************************************************************************)
\* C33: the id and the title of a normalised video are the values of the
\* first synonym, in the fixed order, that is present and not null.
C33_FirstNonNullSynonym ==
    (last.op = "_normalize_video" /\ last.out # None)
       => /\ last.out[1].asin = FirstNonNull(last.item, ID_KEYS)
          /\ last.out[1].title = FirstNonNull(last.item, TITLE_KEYS)

(***************************************************************************)
(* The facade with caching switched off (PrimeAPI.get_rail / search).      *)
(***************************************************************************)
\* C34: a get_rail or search with use_cache = False leaves every cache file
\* as it was at each of its steps (nothing looked up, evicted, written or
\* deleted), calls the strategy exactly once and never reports
\* from_cache = True.
C34_DisabledCacheUntouched ==
    /\ [](\A p \in Threads :
            LET c == sel.th[p] IN
            (IsFetch(c) /\ ~c.use_cache)
            => /\ ~c.looked /\ ~c.evicted /\ ~c.wrote /\ ~c.from_cache
               /\ Done(c) => c.calls = 1)
    /\ [][\A p \in Threads :
            (IsFetch(sel.th[p]) /\ ~sel.th[p].use_cache /\ StepOf(p))
            => files' = files]_vars

\* a call with caching off ended while an expired entry, which a lookup would
\* have evicted, lay under its key, and the entry is still there
C34_Witness ==
    LET c == sel.th["t1"] IN
    /\ Done(c) /\ IsFetch(c)
    /\ ~c.use_cache
    /\ ~c.raised
    /\ files[_filepath(c.key)].st = "dict"
    /\ now - files[_filepath(c.key)].timestamp > c.ttl[1]

(***************************************************************************)
(* Which (rail_id, cursor) pair owns a cache entry.  env maps every key to *)
(* the pair whose get_rail stored the entry now under it.  "::" and "root" *)
(* are symbols, so a text holding the separator is a sequence holding it.  *)
(***************************************************************************)
KeyRailIds == {<<"a">>, <<"a", "::", "b">>}
KeyCursors == {None, Some(<<"root">>), Some(<<"b", "::", "root">>)}
KeyPairs == KeyRailIds \X KeyCursors
PairKeys == {RailKey(p[1], p[2]) : p \in KeyPairs}

\* the pairs a thread calls get_rail with
ThreadPairs(p) ==
    IF p = "t1" THEN KeyPairs ELSE {<<(<<"a">>), Some(<<"root">>)>>}

\* the answers the strategy gives a thread
KeyAnswers(p) ==
    IF p = "t1" THEN {BackendFails, BackendAnswers(<<GoodA>>, RawStr(<<"c">>), None)}
    ELSE {BackendAnswers(<<GoodA>>, None, None)}

InitKeys ==
    /\ files = [k \in PairKeys |-> Absent]
    /\ now = 0
    /\ last = [op |-> "init"]
    /\ env = [k \in PairKeys |-> None]
    /\ sel = [th |-> [p \in Threads |-> NoCall],
              pair |-> [p \in Threads |-> <<(<<>>), None>>],
              owner |-> [p \in Threads |-> None]]

\* thread p calls get_rail(rail_id, cursor, use_cache=True)
KeyedGetRail(p, rail_id, cursor) ==
    /\ ~InProgress(sel.th[p])
    /\ sel' = [sel EXCEPT !.th[p] = get_rail_call(rail_id, cursor, MaxTtl, TRUE, FALSE),
                          !.pair[p] = <<rail_id, cursor>>,
                          !.owner[p] = None]
    /\ UNCHANGED <<files, now, last, env>>

DoKeyedGetRail ==
    \E p \in Threads : \E pair \in ThreadPairs(p) : KeyedGetRail(p, pair[1], pair[2])

\* the next step of the call of thread p.  The read (cache.py lines 69-78)
\* notes which pair stored the file it reads; the TTL test (79-83) says
\* whether that entry is valid, which is what the call finds; the write
\* (88-90) makes the call's pair the one that stored the file.
KeyedStep(p) ==
    /\ InProgress(sel.th[p])
    /\ \E answer \in KeyAnswers(p) :
          LET c == sel.th[p]
              r == CallStep(c, files, now, answer, NoListing)
          IN
          /\ files' = r.files
          /\ sel' = [sel EXCEPT !.th[p] = r.c,
                                !.owner[p] = IF c.pc = "read" THEN env[c.key] ELSE @]
          /\ env' = IF c.pc = "write" THEN [env EXCEPT ![c.key] = Some(sel.pair[p])]
                    ELSE env
          /\ last' = IF c.pc = "ttl"
                     THEN [op |-> "get_rail", pair |-> sel.pair[p], key |-> c.key,
                           found |-> IsPair(r.c.ret), stored_by |-> sel.owner[p]]
                     ELSE last
    /\ UNCHANGED now

DoKeyedStep == \E p \in Threads : KeyedStep(p)

NextKeys == Tick \/ DoKeyedGetRail \/ DoKeyedStep

SpecKeys == InitKeys /\ [][NextKeys]_vars

\* C35: the valid entry the lookup of a get_rail call finds under its key
\* was stored by a get_rail call with the same (rail_id, cursor) pair.
C35_KeysInjective ==
    (last.op = "get_rail" /\ last.found) => last.stored_by = Some(last.pair)

(***************************************************************************)
(* Lost writes between Cache.get and Cache.set (SpecLock).                 *)
(***************************************************************************)
\* thread p is inside the delete of get's TTL eviction (cache.py line 81)
Evicting(p) ==
    /\ sel.th[p].op = "get"
    /\ sel.th[p].at = "t_delete"
    /\ sel.th[p].busy

\* some other thread is still inside a set
SetInProgress(p) ==
    \E q \in Threads \ {p} : sel.th[q].op = "set" /\ sel.th[q].at # "idle"

\* C36: when a get deletes the entry it found expired, the file still holds
\* the entry that get read, unless it is already gone or a set has not yet
\* returned: a get never deletes what a completed later set wrote.
C36_NoLostWrite ==
    \A p \in Threads :
       Evicting(p) =>
          \/ files[LockKey] = sel.th[p].seen
          \/ files[LockKey].st = "absent"
          \/ SetInProgress(p)

(***************************************************************************)
(* get_cache (cache.py lines 138-145) called by several threads at once.   *)
(* sel.instance is the module global _cache_instance; an instance is the   *)
(* number of the Cache() call that made it, and its lock is its own        *)
(* (Cache.__init__, line 62).  Each caller calls get_cache once.           *)
(***************************************************************************)
Callers == {"c1", "c2", "c3"}

InitCallers ==
    /\ files = [k \in CacheKeys |-> Absent]
    /\ now = 0
    /\ last = [op |-> "init"]
    /\ env = NoEnv
    /\ sel = [instance |-> None, created |-> 0,
              at |-> [p \in Callers |-> "test"],
              made |-> [p \in Callers |-> None],
              got |-> [p \in Callers |-> None]]

\* line 143: if _cache_instance is None
TestInstance(p) ==
    /\ sel.at[p] = "test"
    /\ sel' = [sel EXCEPT !.at[p] = IF sel.instance = None THEN "construct" ELSE "return"]
    /\ UNCHANGED <<files, now, last, env>>

\* line 144, right-hand side: Cache()
ConstructCache(p) ==
    /\ sel.at[p] = "construct"
    /\ sel' = [sel EXCEPT !.created = @ + 1, !.made[p] = Some(sel.created + 1),
                          !.at[p] = "assign"]
    /\ UNCHANGED <<files, now, last, env>>

\* line 144, the store into the global
AssignInstance(p) ==
    /\ sel.at[p] = "assign"
    /\ sel' = [sel EXCEPT !.instance = sel.made[p], !.at[p] = "return"]
    /\ UNCHANGED <<files, now, last, env>>

\* line 145: return _cache_instance
ReturnInstance(p) ==
    /\ sel.at[p] = "return"
    /\ sel' = [sel EXCEPT !.got[p] = sel.instance, !.at[p] = "done"]
    /\ UNCHANGED <<files, now, last, env>>

NextCallers ==
    \E p \in Callers :
       TestInstance(p) \/ ConstructCache(p) \/ AssignInstance(p) \/ ReturnInstance(p)

SpecCallers == InitCallers /\ [][NextCallers]_vars

\* C37: at most one Cache is ever constructed, and the callers that have
\* returned all hold the same instance (hence the same lock).
C37_OneSharedInstance ==
    /\ sel.created <= 1
    /\ \A p, q \in Callers :
          (sel.at[p] = "done" /\ sel.at[q] = "done") => sel.got[p] = sel.got[q]

(***************************************************************************)
(* is_drm_ready and an explicit negative (SpecBackend).                    *)
(***************************************************************************)
\* the backend answered is_drm_ready with a map
AnsweredMap(l) ==
    /\ l.op = "is_drm_ready"
    /\ l.answer.err = None
    /\ l.answer.value # None
    /\ l.answer.value[1].ty = "dict"

\* the map's ready or drm_ready entry is the boolean False
ExplicitNegative(l) ==
    /\ AnsweredMap(l)
    /\ \/ l.answer.value[1].ready = Some(FALSE)
       \/ l.answer.value[1].drm_ready = Some(FALSE)

\* C38: is_drm_ready returns False when the answer is a map whose ready or
\* drm_ready entry is the boolean False, and does not return None for a map
\* that reports a boolean readiness.
C38_ExplicitNegativeKept ==
    \A p \in Threads :
       LET l == sel.th[p] IN
       /\ ExplicitNegative(l) => l.ret = Some(FALSE)
       /\ (AnsweredMap(l) /\ l.ret = None)
             => /\ l.answer.value[1].ready = None
                /\ l.answer.value[1].drm_ready = None

====
